---- MODULE Spec2Model ----
(***************************************************************************)
(* Constrained SQL scalar types: bounded integers, fixed-point decimals,   *)
(* floats and strings.  A type descriptor is constructed once; validate,   *)
(* serialize, deserialize and mock are pure functions of the descriptor    *)
(* and of a value or a random draw.                                        *)
(*                                                                         *)
(* The coercion and storage-range steps of integer validate, the whole of  *)
(* DECIMAL (validate, serialize, deserialize), FLOAT.validate and CHAR are *)
(* the code of db_types/types/numeric.py, string.py and base.py.  The      *)
(* declared constraints gt/ge/lt/le/multiple_of, the integer constructor   *)
(* check, every mock() and the constrained string types live in modules    *)
(* that are not part of the sources; they are written from sections 3 and  *)
(* 4 of the specification.                                                 *)
(***************************************************************************)

EXTENDS Integers, Sequences, FiniteSets, TLC

VARIABLES
    itype,      \* integer descriptor: width and declared constraints
    istatus,    \* "none" | "ok" | the error kind raised by the constructor
    iop,        \* last operation applied to the descriptor
    iarg,       \* its argument (a value for validate, a draw for mock)
    ires,       \* its result
    dtype,      \* decimal descriptor: precision and scale
    dstatus,    \* "none" | "ok" | "error"
    dop,        \* last operation applied to the decimal descriptor
    darg,       \* its argument
    dres,       \* its result
    dstore,     \* what serialize last handed to storage
    mtype,      \* constrained decimal descriptor, bounds in units of 10^-scale
    mstatus,    \* "none" | "ok"
    mop,        \* operation in progress or last finished on it
    mpc,        \* "idle" | "draw" (inside the sampling loop) | "done"
    attempts,   \* candidates rejected so far by the running mock()
    mres,       \* result of the last finished operation
    clength,    \* declared length of the CHAR
    cstatus,    \* "none" | "ok" | "error"
    cop,        \* last operation applied to the CHAR
    carg,       \* its argument
    cstore,     \* what serialize last handed to storage
    cres,       \* its result
    ftype,      \* FLOAT descriptor: precision
    fstatus,    \* "none" | "ok"
    fop,        \* last operation applied to the FLOAT
    farg,       \* its argument
    fres,       \* its result
    stype,      \* constrained string descriptor
    sstatus,    \* "none" | "ok" | the error kind raised by the constructor
    sop,        \* last operation applied to it
    sarg,       \* its argument (a value for validate, a body for mock)
    sres,       \* its result
    rop,        \* last operation applied to the REAL
    rarg,       \* its argument
    rres,       \* its result
    xtype,      \* constrained float descriptor, bounds counted in halves
    xstatus,    \* "none" | "ok"
    xop,        \* last operation applied to it
    xarg,       \* the uniform draw of the last mock()
    xres,       \* its result
    qtype,      \* integer descriptor whose sql_type is asked for
    qstatus,    \* "none" | "ok"
    qop,        \* last operation applied to it
    qres,       \* the SQL type string: type name and CHECK clauses
    ntype,      \* width of the integer descriptor used for (de)serialization
    nstatus,    \* "none" | "ok"
    nop,        \* last operation applied to it
    narg,       \* the value handed to that operation
    nres,       \* its result
    blength,    \* declared length of the BINARY descriptor
    bstatus,    \* "none" | "ok" | "error"
    bop,        \* last operation applied to it
    barg,       \* the value handed to that operation
    bstore,     \* what serialize stored
    bres,       \* its result
    ycls,       \* the decorated dataclass: field types and defaults
    ystatus,    \* "none" | "declared" | "live" (an instance exists)
    yobj,       \* the instance: the private attribute of each typed field
    yprev,      \* the instance as it was before the last operation
    yop,        \* last operation: "init" | "set" | "delete"
    yarg,       \* the field and the values handed to it
    yres,       \* whether it returned or raised
    tdesc,      \* an integer descriptor shared by the calling threads
    tstatus,    \* "none" | "ok"
    tpc,        \* per thread: "idle" | "called" | "mid" | "done"
    tcall,      \* per thread: the operation called and its argument
    tret        \* per thread: the value in hand, at "done" the outcome

ivars == <<itype, istatus, iop, iarg, ires>>
dvars == <<dtype, dstatus, dop, darg, dres, dstore>>
mvars == <<mtype, mstatus, mop, mpc, attempts, mres>>
cvars == <<clength, cstatus, cop, carg, cstore, cres>>
fvars == <<ftype, fstatus, fop, farg, fres>>
svars == <<stype, sstatus, sop, sarg, sres>>
rvars == <<rop, rarg, rres>>
xvars == <<xtype, xstatus, xop, xarg, xres>>
qvars == <<qtype, qstatus, qop, qres>>
nvars == <<ntype, nstatus, nop, narg, nres>>
bvars == <<blength, bstatus, bop, barg, bstore, bres>>
yvars == <<ycls, ystatus, yobj, yprev, yop, yarg, yres>>
tvars == <<tdesc, tstatus, tpc, tcall, tret>>
vars == <<ivars, dvars, mvars, cvars, fvars, svars, rvars, xvars, qvars, nvars, bvars, yvars, tvars>>

----------------------------------------------------------------------------
(* Optional values: None is the empty set, a set bound is a singleton.     *)

None == {}

Some(v) == {v}

IsSet(x) == x # {}

Get(x) == CHOOSE v \in x : TRUE

\* Python truthiness of an optional integer: None and 0 are both false.
Truthy(x) == x # {} /\ Get(x) # 0

Max(a, b) == IF a >= b THEN a ELSE b

Min(a, b) == IF a <= b THEN a ELSE b

----------------------------------------------------------------------------
(* Storage widths.                                                         *)

TINYINT_MIN_VALUE == -128
TINYINT_MAX_VALUE == 127
SMALLINT_MIN_VALUE == -32768
SMALLINT_MAX_VALUE == 32767

Widths == {"TINYINT", "SMALLINT"}

MIN_VALUE(w) == IF w = "TINYINT" THEN TINYINT_MIN_VALUE ELSE SMALLINT_MIN_VALUE

MAX_VALUE(w) == IF w = "TINYINT" THEN TINYINT_MAX_VALUE ELSE SMALLINT_MAX_VALUE

----------------------------------------------------------------------------
(* Bounds of the model.                                                    *)

\* a random draw picks the k-th element from either end of the mock domain
MaxDraw == 2

\* values a declared ordering bound is drawn from
BoundVals == {-200, 0, 5, 6, 100, 200}

\* values multiple_of is drawn from
MultVals == {-5, 0, 5, 10, 200}

\* integers handed to validate
IntProbes == {-32769, -32768, -129, -128, 0, 5, 15,
              100, 101, 127, 128, 32767, 32768}

\* floats handed to validate, as twice their value (21 is 10.5)
FloatProbes == {1, 20, 21, 256}

\* numeric strings handed to validate, by the integer they spell
StrProbes == {50, 128}

----------------------------------------------------------------------------
(* Values handed to validate.                                              *)

IntVal(n) == [kind |-> "int", n |-> n]

FloatVal(h) == [kind |-> "float", n |-> h]

StrVal(n) == [kind |-> "str", n |-> n]

BadStrVal == [kind |-> "badstr", n |-> 0]

NoneVal == [kind |-> "none", n |-> 0]

OtherVal == [kind |-> "other", n |-> 0]

IntInputs ==
    {IntVal(n) : n \in IntProbes} \cup {FloatVal(h) : h \in FloatProbes}
    \cup {StrVal(n) : n \in StrProbes} \cup {BadStrVal, NoneVal, OtherVal}

\* float.is_integer() on a float given as twice its value
is_integer(h) == h % 2 = 0

\* int(value): truncation toward zero
int(value) ==
    IF value.kind = "float"
    THEN (IF value.n >= 0 THEN value.n \div 2 ELSE -((-value.n) \div 2))
    ELSE value.n

----------------------------------------------------------------------------
(* Results.                                                                *)

Ok(v) == [ok |-> TRUE, null |-> FALSE, value |-> v, err |-> "", which |-> ""]

OkNull == [ok |-> TRUE, null |-> TRUE, value |-> 0, err |-> "", which |-> ""]

Err(kind, which) ==
    [ok |-> FALSE, null |-> FALSE, value |-> 0, err |-> kind, which |-> which]

NoResult == [ok |-> FALSE, null |-> FALSE, value |-> 0, err |-> "", which |-> ""]

NoArg == [kind |-> "none", n |-> 0]

DrawArg(side, k) == [kind |-> side, n |-> k]

----------------------------------------------------------------------------
(* Integer validate.                                                       *)

\* the range check left out
INTEGER_validate_NoRange(w, value) ==
    IF value.kind = "none" THEN OkNull
    ELSE IF value.kind \notin {"int", "float"} THEN Err("TypeMismatch", "type")
    ELSE IF value.kind = "float" /\ ~is_integer(value.n)
         THEN Err("TypeMismatch", "float")
    ELSE Ok(int(value))

\* SMALLINT.validate (and its copies for the other widths)
INTEGER_validate(w, value) ==
    IF value.kind = "none" THEN OkNull
    ELSE IF value.kind \notin {"int", "float"} THEN Err("TypeMismatch", "type")
    ELSE IF value.kind = "float" /\ ~is_integer(value.n)
         THEN Err("TypeMismatch", "float")
    ELSE LET int_value == int(value) IN
         IF int_value < MIN_VALUE(w) \/ int_value > MAX_VALUE(w)
         THEN Err("OutOfStorageRange", "range")
         ELSE Ok(int_value)

\* multiple_of checked before the ordering bounds
CheckConstraints_MultipleFirst(t, v) ==
    IF IsSet(t.multiple_of) /\ v % Get(t.multiple_of) # 0
        THEN Err("ConstraintViolation", "multiple_of")
    ELSE IF IsSet(t.gt) /\ ~(v > Get(t.gt)) THEN Err("ConstraintViolation", "gt")
    ELSE IF IsSet(t.ge) /\ ~(v >= Get(t.ge)) THEN Err("ConstraintViolation", "ge")
    ELSE IF IsSet(t.lt) /\ ~(v < Get(t.lt)) THEN Err("ConstraintViolation", "lt")
    ELSE IF IsSet(t.le) /\ ~(v <= Get(t.le)) THEN Err("ConstraintViolation", "le")
    ELSE Ok(v)

\* declared constraints in the order gt, ge, lt, le, multiple_of
CheckConstraints(t, v) ==
    IF IsSet(t.gt) /\ ~(v > Get(t.gt)) THEN Err("ConstraintViolation", "gt")
    ELSE IF IsSet(t.ge) /\ ~(v >= Get(t.ge)) THEN Err("ConstraintViolation", "ge")
    ELSE IF IsSet(t.lt) /\ ~(v < Get(t.lt)) THEN Err("ConstraintViolation", "lt")
    ELSE IF IsSet(t.le) /\ ~(v <= Get(t.le)) THEN Err("ConstraintViolation", "le")
    ELSE IF IsSet(t.multiple_of) /\ v % Get(t.multiple_of) # 0
        THEN Err("ConstraintViolation", "multiple_of")
    ELSE Ok(v)

\* coercion and storage check, then the declared constraints
validate(t, value) ==
    LET r == INTEGER_validate(t.width, value) IN
    IF r.ok /\ ~r.null THEN CheckConstraints(t, r.value) ELSE r

----------------------------------------------------------------------------
(* Integer mock.                                                           *)

\* max(storage_min, (gt+1) if gt else ge or storage_min)
effective_min(t) ==
    Max(MIN_VALUE(t.width),
        IF Truthy(t.gt) THEN Get(t.gt) + 1
        ELSE IF Truthy(t.ge) THEN Get(t.ge) ELSE MIN_VALUE(t.width))

\* min(storage_max, (lt-1) if lt else le or storage_max)
effective_max(t) ==
    Min(MAX_VALUE(t.width),
        IF Truthy(t.lt) THEN Get(t.lt) - 1
        ELSE IF Truthy(t.le) THEN Get(t.le) ELSE MAX_VALUE(t.width))

\* smallest multiple of m that is >= x
CeilMultiple(x, m) == -(((-x) \div m) * m)

\* largest multiple of m that is <= x
FloorMultiple(x, m) == (x \div m) * m

Step(t) == IF IsSet(t.multiple_of) THEN Get(t.multiple_of) ELSE 1

DomainFirst(t) == CeilMultiple(effective_min(t), Step(t))

DomainLast(t) == FloorMultiple(effective_max(t), Step(t))

\* mock(rng): the draw picks the k-th element from one end of the domain
mock(t, side, k) ==
    IF DomainFirst(t) > DomainLast(t)
    THEN Err("ImpossibleConstraintSet", "domain")
    ELSE LET v == IF side = "lo" THEN DomainFirst(t) + k * Step(t)
                  ELSE DomainLast(t) - k * Step(t) IN
         IF v < DomainFirst(t) THEN Ok(DomainFirst(t))
         ELSE IF v > DomainLast(t) THEN Ok(DomainLast(t))
         ELSE Ok(v)

----------------------------------------------------------------------------
(* Integer constructor.                                                    *)

IntType(w, gt, ge, lt, le, m) ==
    [width |-> w, gt |-> gt, ge |-> ge, lt |-> lt, le |-> le, multiple_of |-> m]

NoIntType == IntType("TINYINT", None, None, None, None, None)

\* only ge > le is detected
Contradictory_OnlyGeLe(t) ==
    IsSet(t.ge) /\ IsSet(t.le) /\ Get(t.ge) > Get(t.le)

\* the declared ordering bounds, taken alone, admit no integer
Contradictory(t) ==
    \/ IsSet(t.ge) /\ IsSet(t.le) /\ Get(t.ge) > Get(t.le)
    \/ IsSet(t.gt) /\ IsSet(t.le) /\ Get(t.gt) >= Get(t.le)
    \/ IsSet(t.ge) /\ IsSet(t.lt) /\ Get(t.ge) >= Get(t.lt)
    \/ IsSet(t.gt) /\ IsSet(t.lt) /\ Get(t.gt) + 1 >= Get(t.lt)

\* the constructor check letting multiple_of = 0 through
ConstructStatus_ZeroAllowed(t) ==
    IF IsSet(t.multiple_of) /\ Get(t.multiple_of) < 0 THEN "InvalidMultipleOf"
    ELSE IF Contradictory(t) THEN "ImpossibleConstraintSet"
    ELSE "ok"

ConstructStatus(t) ==
    IF IsSet(t.multiple_of) /\ Get(t.multiple_of) <= 0 THEN "InvalidMultipleOf"
    ELSE IF Contradictory(t) THEN "ImpossibleConstraintSet"
    ELSE "ok"

\* an optional bound: absent, or one of BoundVals other than those of skip
OptBound(skip) == {None} \cup {Some(b) : b \in BoundVals \ skip}

OptMult == {None} \cup {Some(m) : m \in MultVals}

----------------------------------------------------------------------------
(* Integer actions.                                                        *)

IntConstruct ==
    /\ istatus = "none"
    /\ \E w \in Widths, gt \in OptBound({6, 200}), ge \in OptBound({6}),
          lt \in OptBound({-200, 5}), le \in OptBound({-200, 6}), m \in OptMult :
          /\ itype' = IntType(w, gt, ge, lt, le, m)
          /\ istatus' = ConstructStatus(IntType(w, gt, ge, lt, le, m))
    /\ UNCHANGED <<iop, iarg, ires>>
    /\ UNCHANGED <<dvars, mvars, cvars, fvars, svars, rvars, xvars, qvars, nvars, bvars, yvars, tvars>>

IntValidate ==
    /\ istatus = "ok"
    /\ \E value \in IntInputs :
          /\ iop' = "validate"
          /\ iarg' = value
          /\ ires' = validate(itype, value)
    /\ UNCHANGED <<itype, istatus>>
    /\ UNCHANGED <<dvars, mvars, cvars, fvars, svars, rvars, xvars, qvars, nvars, bvars, yvars, tvars>>

IntMock ==
    /\ istatus = "ok"
    /\ \E side \in {"lo", "hi"}, k \in 0..MaxDraw :
          /\ iop' = "mock"
          /\ iarg' = DrawArg(side, k)
          /\ ires' = mock(itype, side, k)
    /\ UNCHANGED <<itype, istatus>>
    /\ UNCHANGED <<dvars, mvars, cvars, fvars, svars, rvars, xvars, qvars, nvars, bvars, yvars, tvars>>

----------------------------------------------------------------------------
(* Decimal values: sign, coefficient and exponent, as Decimal.as_tuple()   *)
(* gives them; the digits are the decimal digits of the coefficient.       *)

\* largest precision a DECIMAL is declared with
MaxPrecision == 5

\* largest exponent magnitude of a value handed to validate
MaxExp == 3

DecCoefs == {0, 5, 15, 999, 1000, 10999, 99999, 100000}

Dec(sign, coef, exp) == [sign |-> sign, coef |-> coef, exp |-> exp]

DecVal(kind, d) == [kind |-> kind, d |-> d]

\* coefficients that are also handed over with a minus sign
NegCoefs == {5, 999, 1000}

DecInputs ==
    {DecVal("Decimal", Dec(0, c, e)) : c \in DecCoefs, e \in (-MaxExp)..MaxExp}
    \cup {DecVal("Decimal", Dec(1, c, e)) : c \in NegCoefs, e \in {-2, 0, 1}}
    \cup {DecVal("str", Dec(0, c, e)) :
            c \in {0, 15, 1000}, e \in (-MaxExp)..MaxExp}
    \cup {DecVal("int", Dec(0, c, 0)) : c \in DecCoefs}
    \cup {DecVal("int", Dec(1, c, 0)) : c \in NegCoefs}
    \cup {DecVal("float", Dec(0, c, e)) :
            c \in {5, 15, 999}, e \in (-MaxExp)..(-1)}
    \cup {DecVal("float", Dec(1, c, e)) : c \in {5, 999}, e \in (-MaxExp)..(-1)}
    \cup {DecVal(k, Dec(0, 0, 0)) : k \in {"badstr", "none", "other"}}

RECURSIVE Pow10(_)
Pow10(k) == IF k <= 0 THEN 1 ELSE 10 * Pow10(k - 1)

RECURSIVE NumDigits(_)
\* len(digits) of a coefficient
NumDigits(c) == IF c < 10 THEN 1 ELSE 1 + NumDigits(c \div 10)

DOk(d) == [ok |-> TRUE, null |-> FALSE, value |-> d, err |-> "", which |-> ""]

DOkNull ==
    [ok |-> TRUE, null |-> TRUE, value |-> Dec(0, 0, 0), err |-> "", which |-> ""]

DErr(kind, which) ==
    [ok |-> FALSE, null |-> FALSE, value |-> Dec(0, 0, 0), err |-> kind,
     which |-> which]

DNoResult ==
    [ok |-> FALSE, null |-> FALSE, value |-> Dec(0, 0, 0), err |-> "",
     which |-> ""]

DNoArg == DecVal("none", Dec(0, 0, 0))

\* DECIMAL.__init__
DECIMAL_init(precision, scale) ==
    IF precision <= 0 THEN "error"
    ELSE IF scale < 0 THEN "error"
    ELSE IF scale > precision THEN "error"
    ELSE "ok"

\* DECIMAL.validate
DECIMAL_validate(t, value) ==
    IF value.kind = "none" THEN DOkNull
    ELSE IF value.kind \notin {"int", "float", "Decimal", "str", "badstr"}
         THEN DErr("TypeMismatch", "type")
    ELSE IF value.kind = "badstr" THEN DErr("TypeMismatch", "convert")
    ELSE LET dec_value == value.d
             total_digits == NumDigits(dec_value.coef)
             decimal_places == IF dec_value.exp < 0 THEN -dec_value.exp ELSE 0
         IN
         IF total_digits > t.precision THEN DErr("PrecisionOverflow", "precision")
         ELSE IF decimal_places > t.scale THEN DErr("PrecisionOverflow", "scale")
         ELSE DOk(dec_value)

RECURSIVE Digits(_)
\* the decimal digits of a coefficient, most significant first
Digits(c) == IF c < 10 THEN <<c>> ELSE Append(Digits(c \div 10), c % 10)

RECURSIVE FromDigits(_)
\* int() of a digit string
FromDigits(ds) ==
    IF ds = <<>> THEN 0
    ELSE 10 * FromDigits(SubSeq(ds, 1, Len(ds) - 1)) + ds[Len(ds)]

Zeros(n) == [i \in 1..n |-> 0]

\* a numeric string: sign, digits left and right of the point, and the
\* number after E (0 when the string has no exponent part)
NumStr(neg, intpart, fracpart, e) ==
    [kind |-> "str", neg |-> neg, intpart |-> intpart, fracpart |-> fracpart,
     e |-> e]

NoStore == [kind |-> "none", neg |-> FALSE, intpart |-> <<>>, fracpart |-> <<>>, e |-> 0]

NullStore == [kind |-> "null", neg |-> FALSE, intpart |-> <<>>, fracpart |-> <<>>, e |-> 0]

\* str(Decimal) with the leading zeros of the fraction left out
Decimal_str_NoLeadingZeros(d) ==
    LET digits == Digits(d.coef)
        n == Len(digits)
        leftdigits == d.exp + n
        dotplace == IF d.exp <= 0 /\ leftdigits > -6 THEN leftdigits ELSE 1
    IN  NumStr(d.sign = 1,
               IF dotplace <= 0 THEN <<0>>
               ELSE IF dotplace >= n THEN digits \o Zeros(dotplace - n)
               ELSE SubSeq(digits, 1, dotplace),
               IF dotplace <= 0 THEN digits
               ELSE IF dotplace >= n THEN <<>>
               ELSE SubSeq(digits, dotplace + 1, n),
               leftdigits - dotplace)

\* str(Decimal): plain notation while the exponent is not positive and the
\* value is at least 1E-6, scientific notation otherwise
Decimal_str(d) ==
    LET digits == Digits(d.coef)
        n == Len(digits)
        leftdigits == d.exp + n
        dotplace == IF d.exp <= 0 /\ leftdigits > -6 THEN leftdigits ELSE 1
    IN  NumStr(d.sign = 1,
               IF dotplace <= 0 THEN <<0>>
               ELSE IF dotplace >= n THEN digits \o Zeros(dotplace - n)
               ELSE SubSeq(digits, 1, dotplace),
               IF dotplace <= 0 THEN Zeros(-dotplace) \o digits
               ELSE IF dotplace >= n THEN <<>>
               ELSE SubSeq(digits, dotplace + 1, n),
               leftdigits - dotplace)

\* Decimal(str): the coefficient is the digits of both parts, the exponent
\* the written one less the length of the fraction
Decimal_parse(s) ==
    Dec(IF s.neg THEN 1 ELSE 0, FromDigits(s.intpart \o s.fracpart),
        s.e - Len(s.fracpart))

\* DECIMAL._serialize: str(Decimal(str(value)))
DECIMAL_serialize(value) == Decimal_str(value.d)

\* DECIMAL._deserialize: Decimal(str(value))
DECIMAL_deserialize(s) == DecVal("Decimal", Decimal_parse(s))

\* DBType.deserialize
DECIMAL_deserialize_value(t, s) ==
    IF s.kind = "null" THEN DOkNull
    ELSE LET deserialized == DECIMAL_deserialize(s)
             checked == DECIMAL_validate(t, deserialized)
         IN  IF checked.ok THEN DOk(deserialized.d) ELSE checked

DecConstruct ==
    /\ dstatus = "none"
    /\ \E precision \in 0..MaxPrecision, scale \in (-1)..MaxPrecision :
          /\ dtype' = [precision |-> precision, scale |-> scale]
          /\ dstatus' = DECIMAL_init(precision, scale)
    /\ UNCHANGED <<dop, darg, dres, dstore>>
    /\ UNCHANGED <<ivars, mvars, cvars, fvars, svars, rvars, xvars, qvars, nvars, bvars, yvars, tvars>>

DecValidate ==
    /\ dstatus = "ok"
    /\ \E value \in DecInputs :
          /\ dop' = "validate"
          /\ darg' = value
          /\ dres' = DECIMAL_validate(dtype, value)
    /\ dstore' = NoStore
    /\ UNCHANGED <<dtype, dstatus>>
    /\ UNCHANGED <<ivars, mvars, cvars, fvars, svars, rvars, xvars, qvars, nvars, bvars, yvars, tvars>>

\* DBType.serialize: None passes through, validate raises or lets the value
\* through, _serialize writes it
DecSerialize ==
    /\ dstatus = "ok"
    /\ \E value \in DecInputs :
          /\ dop' = "serialize"
          /\ darg' = value
          /\ dres' = DECIMAL_validate(dtype, value)
          /\ dstore' = IF value.kind = "none" THEN NullStore
                       ELSE IF DECIMAL_validate(dtype, value).ok
                            THEN DECIMAL_serialize(value)
                       ELSE NoStore
    /\ UNCHANGED <<dtype, dstatus>>
    /\ UNCHANGED <<ivars, mvars, cvars, fvars, svars, rvars, xvars, qvars, nvars, bvars, yvars, tvars>>

\* DBType.deserialize of what serialize stored
DecDeserialize ==
    /\ dstatus = "ok"
    /\ dop = "serialize"
    /\ dstore # NoStore
    /\ dop' = "deserialize"
    /\ dres' = DECIMAL_deserialize_value(dtype, dstore)
    /\ UNCHANGED <<dtype, dstatus, darg, dstore>>
    /\ UNCHANGED <<ivars, mvars, cvars, fvars, svars, rvars, xvars, qvars, nvars, bvars, yvars, tvars>>

----------------------------------------------------------------------------
(* Decimal mock: digit strings are drawn, assembled and checked against    *)
(* the declared constraints; a rejected candidate is drawn again, up to a  *)
(* fixed number of attempts.  Values and bounds are counted in units of    *)
(* 10^-scale.                                                              *)

\* attempts one mock() call may make (1,000 in the specification)
RetryBudget == 3

\* (precision, scale) of the constrained decimals
MockShapes == {<<1, 0>>, <<2, 1>>}

DecType(precision, scale, gt, ge, lt, le, m) ==
    [precision |-> precision, scale |-> scale, gt |-> gt, ge |-> ge,
     lt |-> lt, le |-> le, multiple_of |-> m]

NoDecType == DecType(1, 0, None, None, None, None, None)

MockTypes ==
    {DecType(ps[1], ps[2], gt, ge, lt, le, m) :
        ps \in MockShapes,
        gt \in {None, Some(0)}, ge \in {None, Some(1)},
        lt \in {None, Some(10)}, le \in {None, Some(0), Some(1)},
        m \in {None, Some(5)}}

\* the value assembled from a sign, an integer digit string and a
\* fractional digit string
Assemble(t, sign, intdigits, fracdigits) ==
    (IF sign = 1 THEN -1 ELSE 1) * (intdigits * Pow10(t.scale) + fracdigits)

\* every value the digit strings of the type can spell
Candidates(t) ==
    {Assemble(t, sign, i, f) :
        sign \in {0, 1}, i \in 0..(Pow10(t.precision - t.scale) - 1),
        f \in 0..(Pow10(t.scale) - 1)}

\* the check of a candidate with multiple_of left out
MockCheck_NoMultiple(t, n) ==
    /\ (IsSet(t.gt) => n > Get(t.gt))
    /\ (IsSet(t.ge) => n >= Get(t.ge))
    /\ (IsSet(t.lt) => n < Get(t.lt))
    /\ (IsSet(t.le) => n <= Get(t.le))

\* the check of a candidate against gt/ge/lt/le/multiple_of
MockCheck(t, n) ==
    /\ (IsSet(t.gt) => n > Get(t.gt))
    /\ (IsSet(t.ge) => n >= Get(t.ge))
    /\ (IsSet(t.lt) => n < Get(t.lt))
    /\ (IsSet(t.le) => n <= Get(t.le))
    /\ (IsSet(t.multiple_of) => n % Get(t.multiple_of) = 0)

MOk(n) == [ok |-> TRUE, value |-> n, err |-> ""]

MErr(kind) == [ok |-> FALSE, value |-> 0, err |-> kind]

MNoResult == [ok |-> FALSE, value |-> 0, err |-> ""]

MockConstruct ==
    /\ mstatus = "none"
    /\ \E t \in MockTypes : mtype' = t
    /\ mstatus' = "ok"
    /\ UNCHANGED <<mop, mpc, attempts, mres>>
    /\ UNCHANGED <<ivars, dvars, cvars, fvars, svars, rvars, xvars, qvars, nvars, bvars, yvars, tvars>>

\* mock() is called: the loop starts with no attempt made
MockCall ==
    /\ mstatus = "ok"
    /\ mpc \in {"idle", "done"}
    /\ mop' = "mock"
    /\ mpc' = "draw"
    /\ attempts' = 0
    /\ mres' = MNoResult
    /\ UNCHANGED <<mtype, mstatus>>
    /\ UNCHANGED <<ivars, dvars, cvars, fvars, svars, rvars, xvars, qvars, nvars, bvars, yvars, tvars>>

\* one pass of the loop: draw, assemble, check; return the candidate, or
\* count the attempt and raise once the budget is spent
MockAttempt ==
    /\ mpc = "draw"
    /\ \E n \in Candidates(mtype) :
          IF MockCheck(mtype, n)
          THEN /\ mres' = MOk(n)
               /\ mpc' = "done"
               /\ attempts' = attempts
          ELSE /\ attempts' = attempts + 1
               /\ mpc' = IF attempts + 1 >= RetryBudget THEN "done" ELSE "draw"
               /\ mres' = IF attempts + 1 >= RetryBudget
                          THEN MErr("ImpossibleConstraintSet") ELSE MNoResult
    /\ UNCHANGED <<mtype, mstatus, mop>>
    /\ UNCHANGED <<ivars, dvars, cvars, fvars, svars, rvars, xvars, qvars, nvars, bvars, yvars, tvars>>

\* validate of a scaled value: one pass over the constraints, no retry
MockValidate ==
    /\ mstatus = "ok"
    /\ mpc \in {"idle", "done"}
    /\ \E n \in Candidates(mtype) :
          mres' = IF MockCheck(mtype, n) THEN MOk(n)
                  ELSE MErr("ConstraintViolation")
    /\ mop' = "validate"
    /\ mpc' = "done"
    /\ UNCHANGED <<mtype, mstatus, attempts>>
    /\ UNCHANGED <<ivars, dvars, cvars, fvars, svars, rvars, xvars, qvars, nvars, bvars, yvars, tvars>>

----------------------------------------------------------------------------
(* CHAR(length): validate, and serialize/deserialize through the base      *)
(* class.  A string is a sequence of characters.                           *)

\* largest declared CHAR length
MaxCharLen == 3

Chars == {"a", " ", "\t"}

\* whitespace as str.rstrip() sees it
IsSpace(c) == c \in {" ", "\t"}

\* strings over the characters cs of length at most n
StringsOver(cs, n) == UNION {[1..k -> cs] : k \in 0..n}

CStr(s) == [kind |-> "str", s |-> s]

CNone == [kind |-> "none", s |-> <<>>]

COther == [kind |-> "other", s |-> <<>>]

CharInputs == {CStr(s) : s \in StringsOver(Chars, MaxCharLen + 1)} \cup {CNone, COther}

COk(s) == [ok |-> TRUE, null |-> FALSE, value |-> s, err |-> ""]

COkNull == [ok |-> TRUE, null |-> TRUE, value |-> <<>>, err |-> ""]

CErr(kind) == [ok |-> FALSE, null |-> FALSE, value |-> <<>>, err |-> kind]

CNoResult == [ok |-> FALSE, null |-> FALSE, value |-> <<>>, err |-> ""]

\* CHAR.__init__
CHAR_init(length) == IF length <= 0 THEN "error" ELSE "ok"

\* CHAR.validate
CHAR_validate(length, value) ==
    IF value.kind = "none" THEN COkNull
    ELSE IF value.kind # "str" THEN CErr("TypeMismatch")
    ELSE IF Len(value.s) > length THEN CErr("ConstraintViolation")
    ELSE COk(value.s)

\* str.ljust(width)
ljust(s, width) ==
    IF Len(s) >= width THEN s ELSE s \o [i \in 1..(width - Len(s)) |-> " "]

RECURSIVE lstrip(_)
\* str.lstrip()
lstrip(s) ==
    IF s # <<>> /\ IsSpace(s[1]) THEN lstrip(SubSeq(s, 2, Len(s))) ELSE s

RECURSIVE rstrip(_)
\* str.rstrip()
rstrip(s) ==
    IF s # <<>> /\ IsSpace(s[Len(s)])
    THEN rstrip(SubSeq(s, 1, Len(s) - 1))
    ELSE s

\* CHAR._serialize
CHAR_serialize(length, s) == ljust(s, length)

\* _deserialize trimming both ends
CHAR_deserialize_Strip(s) == lstrip(rstrip(s))

\* CHAR._deserialize
CHAR_deserialize(s) == rstrip(s)

CharConstruct ==
    /\ cstatus = "none"
    /\ \E length \in 0..MaxCharLen :
          /\ clength' = length
          /\ cstatus' = CHAR_init(length)
    /\ UNCHANGED <<cop, carg, cstore, cres>>
    /\ UNCHANGED <<ivars, dvars, mvars, fvars, svars, rvars, xvars, qvars, nvars, bvars, yvars, tvars>>

CharValidate ==
    /\ cstatus = "ok"
    /\ \E value \in CharInputs :
          /\ carg' = value
          /\ cres' = CHAR_validate(clength, value)
    /\ cop' = "validate"
    /\ cstore' = CNone
    /\ UNCHANGED <<clength, cstatus>>
    /\ UNCHANGED <<ivars, dvars, mvars, fvars, svars, rvars, xvars, qvars, nvars, bvars, yvars, tvars>>

\* DBType.serialize: None passes through, validate, then _serialize
CharSerialize ==
    /\ cstatus = "ok"
    /\ \E value \in CharInputs :
          /\ carg' = value
          /\ cres' = CHAR_validate(clength, value)
          /\ cstore' = IF value.kind = "str" /\ CHAR_validate(clength, value).ok
                       THEN CStr(CHAR_serialize(clength, value.s))
                       ELSE CNone
    /\ cop' = "serialize"
    /\ UNCHANGED <<clength, cstatus>>
    /\ UNCHANGED <<ivars, dvars, mvars, fvars, svars, rvars, xvars, qvars, nvars, bvars, yvars, tvars>>

\* DBType.deserialize of what serialize stored: None passes through,
\* _deserialize, then validate
CharDeserialize ==
    /\ cstatus = "ok"
    /\ cop = "serialize"
    /\ cres.ok
    /\ cop' = "deserialize"
    /\ cres' = IF cstore.kind = "none" THEN COkNull
               ELSE CHAR_validate(clength, CStr(CHAR_deserialize(cstore.s)))
    /\ UNCHANGED <<clength, cstatus, carg, cstore>>
    /\ UNCHANGED <<ivars, dvars, mvars, fvars, svars, rvars, xvars, qvars, nvars, bvars, yvars, tvars>>

----------------------------------------------------------------------------
(* FLOAT: validate.  A float is finite (its value counted in halves), an   *)
(* infinity or NaN.                                                        *)

\* largest declared FLOAT precision
MaxFloatPrecision == 3

\* largest magnitude, in halves, of a finite value handed to validate
MaxHalves == 12

FFinite(kind, h) == [kind |-> kind, class |-> "finite", h |-> h]

FNonFinite(class) == [kind |-> "float", class |-> class, h |-> 0]

FNone == [kind |-> "none", class |-> "finite", h |-> 0]

FOther == [kind |-> "other", class |-> "finite", h |-> 0]

FloatInputs ==
    {FFinite("float", h) : h \in (-MaxHalves)..MaxHalves}
    \cup {FFinite("int", 2 * n) : n \in -2..2}
    \cup {FNonFinite(c) : c \in {"inf", "-inf", "nan"}}
    \cup {FNone, FOther}

FOk == [ok |-> TRUE, err |-> ""]

FErr(kind) == [ok |-> FALSE, err |-> kind]

FNoResult == [ok |-> FALSE, err |-> ""]

\* FLOAT.validate
FLOAT_validate(t, value) ==
    IF value.kind = "none" THEN FOk
    ELSE IF value.kind \notin {"int", "float"} THEN FErr("TypeMismatch")
    ELSE FOk

\* FLOAT.__init__
FloatConstruct ==
    /\ fstatus = "none"
    /\ \E precision \in {None} \cup {Some(p) : p \in 1..MaxFloatPrecision} :
          ftype' = [precision |-> precision]
    /\ fstatus' = "ok"
    /\ UNCHANGED <<fop, farg, fres>>
    /\ UNCHANGED <<ivars, dvars, mvars, cvars, svars, rvars, xvars, qvars, nvars, bvars, yvars, tvars>>

FloatValidate ==
    /\ fstatus = "ok"
    /\ \E value \in FloatInputs :
          /\ farg' = value
          /\ fres' = FLOAT_validate(ftype, value)
    /\ fop' = "validate"
    /\ UNCHANGED <<ftype, fstatus>>
    /\ UNCHANGED <<ivars, dvars, mvars, cvars, svars, rvars, xvars, qvars, nvars, bvars, yvars, tvars>>

----------------------------------------------------------------------------
(* Constrained strings (VARCHAR/CHAR/TEXT with min_length, startswith,     *)
(* endswith, strip_whitespace and a case transform): constructor, validate *)
(* and mock, written from section 4.4 of the specification.                *)

\* largest declared capacity
MaxCap == 2

SChars == {"a", "A", " "}

\* the characters mock() draws a body from
BodyChars == {"a", "A"}

lower(c) == IF c = "A" THEN "a" ELSE c

upper(c) == IF c = "a" THEN "A" ELSE c

StrType(kind, capacity, min_length, prefix, suffix, strip_ws, case) ==
    [kind |-> kind, capacity |-> capacity, min_length |-> min_length,
     startswith |-> prefix, endswith |-> suffix,
     strip_whitespace |-> strip_ws, case |-> case]

NoStrType == StrType("VARCHAR", Some(1), None, <<>>, <<>>, FALSE, "none")

Prefixes == {<<>>, <<"A">>, <<"A", "a">>}

Suffixes == {<<>>, <<"a">>}

StrTypes ==
    {StrType(kind, Some(capacity), min_length, p, s, strip, case) :
        kind \in {"VARCHAR", "CHAR", "TEXT"}, capacity \in 1..MaxCap,
        min_length \in {None, Some(1), Some(MaxCap + 1)},
        p \in Prefixes, s \in Suffixes, strip \in BOOLEAN,
        case \in {"none", "lower", "upper"}}
    \cup
    {StrType("TEXT", None, min_length, p, s, strip, case) :
        min_length \in {None, Some(1)},
        p \in Prefixes, s \in Suffixes, strip \in BOOLEAN,
        case \in {"none", "lower", "upper"}}

\* values handed to validate: every string up to the largest capacity, and
\* the strings one character longer made of "a" and " "
StrInputs ==
    {CStr(s) : s \in StringsOver(SChars, MaxCap)}
    \cup {CStr(s) : s \in [1..(MaxCap + 1) -> {"a", " "}]}
    \cup {CNone}

SOk(s) == [ok |-> TRUE, null |-> FALSE, value |-> s, err |-> "", which |-> ""]

SOkNull ==
    [ok |-> TRUE, null |-> TRUE, value |-> <<>>, err |-> "", which |-> ""]

SErr(kind, which) ==
    [ok |-> FALSE, null |-> FALSE, value |-> <<>>, err |-> kind,
     which |-> which]

SNoResult ==
    [ok |-> FALSE, null |-> FALSE, value |-> <<>>, err |-> "", which |-> ""]

\* the constructor check with prefix and suffix each measured alone
STR_init_EachAlone(t) ==
    IF /\ IsSet(t.capacity)
       /\ \/ Len(t.startswith) > Get(t.capacity)
          \/ Len(t.endswith) > Get(t.capacity)
    THEN "ImpossibleConstraintSet"
    ELSE IF /\ IsSet(t.capacity) /\ IsSet(t.min_length)
            /\ Get(t.min_length) > Get(t.capacity)
    THEN "ImpossibleConstraintSet"
    ELSE "ok"

\* the constructor check: len(startswith) + len(endswith) <= capacity and
\* min_length <= capacity
STR_init(t) ==
    IF /\ IsSet(t.capacity)
       /\ Len(t.startswith) + Len(t.endswith) > Get(t.capacity)
    THEN "ImpossibleConstraintSet"
    ELSE IF /\ IsSet(t.capacity) /\ IsSet(t.min_length)
            /\ Get(t.min_length) > Get(t.capacity)
    THEN "ImpossibleConstraintSet"
    ELSE "ok"

\* str.strip()
strip(s) == lstrip(rstrip(s))

\* str.lower() / str.upper() as the declared transform asks
CaseTransform(case, s) ==
    IF case = "lower" THEN [i \in 1..Len(s) |-> lower(s[i])]
    ELSE IF case = "upper" THEN [i \in 1..Len(s) |-> upper(s[i])]
    ELSE s

\* str.startswith
startswith(s, p) == Len(p) <= Len(s) /\ SubSeq(s, 1, Len(p)) = p

\* str.endswith
endswith(s, p) ==
    Len(p) <= Len(s) /\ SubSeq(s, Len(s) - Len(p) + 1, Len(s)) = p

\* prefix, suffix and length checks of a value, in this order
CheckString(t, v) ==
    IF ~startswith(v, t.startswith) THEN SErr("ConstraintViolation", "startswith")
    ELSE IF ~endswith(v, t.endswith) THEN SErr("ConstraintViolation", "endswith")
    ELSE IF IsSet(t.min_length) /\ Len(v) < Get(t.min_length)
         THEN SErr("ConstraintViolation", "length")
    ELSE IF IsSet(t.capacity) /\ Len(v) > Get(t.capacity)
         THEN SErr("ConstraintViolation", "length")
    ELSE SOk(v)

\* validate with the prefix looked for before strip and case transform
STR_validate_PrefixOnRaw(t, value) ==
    IF value.kind = "none" THEN SOkNull
    ELSE IF ~startswith(value.s, t.startswith)
         THEN SErr("ConstraintViolation", "startswith")
    ELSE LET stripped == IF t.strip_whitespace THEN strip(value.s) ELSE value.s
             transformed == CaseTransform(t.case, stripped)
         IN  CheckString([t EXCEPT !.startswith = <<>>], transformed)

\* validate: strip, case transform, prefix, suffix, length
STR_validate(t, value) ==
    IF value.kind = "none" THEN SOkNull
    ELSE LET stripped == IF t.strip_whitespace THEN strip(value.s) ELSE value.s
             transformed == CaseTransform(t.case, stripped)
         IN  CheckString(t, transformed)

\* the body lengths that bring prefix + body + suffix between min_length
\* and the capacity
BodyLengths(t) ==
    LET fixed == Len(t.startswith) + Len(t.endswith)
        lo == IF IsSet(t.min_length) THEN Max(0, Get(t.min_length) - fixed)
              ELSE 0
        hi == IF IsSet(t.capacity) THEN Get(t.capacity) - fixed
              ELSE Max(lo, MaxCap)
    IN  lo..hi

Bodies(t) == UNION {[1..k -> BodyChars] : k \in BodyLengths(t)}

\* mock: prefix + body + suffix, case transform last; CHAR comes padded to
\* its capacity
STR_mock(t, body) ==
    LET assembled == t.startswith \o body \o t.endswith
        transformed == CaseTransform(t.case, assembled)
    IN  IF t.kind = "CHAR" THEN ljust(transformed, Get(t.capacity))
        ELSE transformed

StrConstruct ==
    /\ sstatus = "none"
    /\ \E t \in StrTypes :
          /\ stype' = t
          /\ sstatus' = STR_init(t)
    /\ UNCHANGED <<sop, sarg, sres>>
    /\ UNCHANGED <<ivars, dvars, mvars, cvars, fvars, rvars, xvars, qvars, nvars, bvars, yvars, tvars>>

StrValidate ==
    /\ sstatus = "ok"
    /\ \E value \in StrInputs :
          /\ sarg' = value
          /\ sres' = STR_validate(stype, value)
    /\ sop' = "validate"
    /\ UNCHANGED <<stype, sstatus>>
    /\ UNCHANGED <<ivars, dvars, mvars, cvars, fvars, rvars, xvars, qvars, nvars, bvars, yvars, tvars>>

StrMock ==
    /\ sstatus = "ok"
    /\ \E body \in Bodies(stype) :
          /\ sarg' = CStr(body)
          /\ sres' = SOk(STR_mock(stype, body))
    /\ sop' = "mock"
    /\ UNCHANGED <<stype, sstatus>>
    /\ UNCHANGED <<ivars, dvars, mvars, cvars, fvars, rvars, xvars, qvars, nvars, bvars, yvars, tvars>>

----------------------------------------------------------------------------
(* REAL: validate.  A finite non-zero float is sign * (m / 100) * 10^e     *)
(* with a three-digit mantissa m in 100..999.                              *)

\* largest decimal exponent of a value handed to REAL validate
MaxRealExp == 39

RealMantissas == {100, 117, 118, 340, 341, 999}

RealExps == {-MaxRealExp - 6, -MaxRealExp, -38, -37, 0, 37, 38, MaxRealExp}

RFinite(kind, sign, m, e) ==
    [kind |-> kind, class |-> "finite", sign |-> sign, m |-> m, e |-> e]

RZero(kind, sign) ==
    [kind |-> kind, class |-> "zero", sign |-> sign, m |-> 0, e |-> 0]

RNonFinite(class) ==
    [kind |-> "float", class |-> class, sign |-> 0, m |-> 0, e |-> 0]

RNone == [kind |-> "none", class |-> "zero", sign |-> 0, m |-> 0, e |-> 0]

ROther == [kind |-> "other", class |-> "zero", sign |-> 0, m |-> 0, e |-> 0]

RealInputs ==
    {RFinite("float", s, m, e) :
        s \in {0, 1}, m \in RealMantissas, e \in RealExps}
    \cup {RFinite("int", s, m, 2) : s \in {0, 1}, m \in {100, 420}}
    \cup {RZero("float", 0), RZero("float", 1), RZero("int", 0)}
    \cup {RNonFinite(c) : c \in {"inf", "-inf", "nan"}}
    \cup {RNone, ROther}

\* REAL.validate
REAL_validate(value) ==
    IF value.kind = "none" THEN FOk
    ELSE IF value.kind \notin {"int", "float"} THEN FErr("TypeMismatch")
    ELSE FOk

RealValidate ==
    /\ \E value \in RealInputs :
          /\ rarg' = value
          /\ rres' = REAL_validate(value)
    /\ rop' = "validate"
    /\ UNCHANGED <<ivars, dvars, mvars, cvars, fvars, svars, xvars, qvars, nvars, bvars, yvars, tvars>>

----------------------------------------------------------------------------
(* Float mock: a uniform draw between the effective bounds, rounded to a   *)
(* multiple when multiple_of is declared; written from section 4.3 of the  *)
(* specification.  Values are counted in halves.                           *)

\* magnitude of the storage bound of the modelled float, in halves
FloatStorageMax == 6

FloatType(gt, ge, lt, le, m) ==
    [gt |-> gt, ge |-> ge, lt |-> lt, le |-> le, multiple_of |-> m]

NoFloatType == FloatType(None, None, None, None, None)

FloatTypes ==
    {FloatType(gt, ge, lt, le, m) :
        gt \in {None, Some(-2), Some(1)}, ge \in {None, Some(0)},
        lt \in {None, Some(4)}, le \in {None, Some(3)},
        m \in {None, Some(2), Some(3)}}

\* max(storage_min, gt/ge)
float_low(t) == Max(-FloatStorageMax, Max(IF IsSet(t.gt) THEN Get(t.gt) ELSE -FloatStorageMax, IF IsSet(t.ge) THEN Get(t.ge) ELSE -FloatStorageMax))

\* min(storage_max, lt/le)
float_high(t) == Min(FloatStorageMax, Min(IF IsSet(t.lt) THEN Get(t.lt) ELSE FloatStorageMax, IF IsSet(t.le) THEN Get(t.le) ELSE FloatStorageMax))

Abs(x) == IF x < 0 THEN -x ELSE x

\* the multiples of m between the bounds
MultiplesWithin(t, m) == {k \in float_low(t)..float_high(t) : k % m = 0}

\* the multiple within the bounds nearest to the draw (the lower of two
\* equally near ones)
NearestMultiple(t, m, u) ==
    CHOOSE k \in MultiplesWithin(t, m) :
        \A j \in MultiplesWithin(t, m) :
            Abs(k - u) < Abs(j - u) \/ (Abs(k - u) = Abs(j - u) /\ k <= j)

\* mock for floats, u being the uniform draw from [float_low, float_high]
FLOAT_mock(t, u) ==
    IF IsSet(t.multiple_of)
    THEN IF MultiplesWithin(t, Get(t.multiple_of)) = {}
         THEN MErr("ImpossibleConstraintSet")
         ELSE MOk(NearestMultiple(t, Get(t.multiple_of), u))
    ELSE MOk(u)

FloatMockConstruct ==
    /\ xstatus = "none"
    /\ \E t \in FloatTypes : xtype' = t
    /\ xstatus' = "ok"
    /\ UNCHANGED <<xop, xarg, xres>>
    /\ UNCHANGED <<ivars, dvars, mvars, cvars, fvars, svars, rvars, qvars, nvars, bvars, yvars, tvars>>

FloatMock ==
    /\ xstatus = "ok"
    /\ IF float_low(xtype) > float_high(xtype)
       THEN xres' = MErr("ImpossibleConstraintSet") /\ xarg' = 0
       ELSE \E u \in float_low(xtype)..float_high(xtype) :
               /\ xarg' = u
               /\ xres' = FLOAT_mock(xtype, u)
    /\ xop' = "mock"
    /\ UNCHANGED <<xtype, xstatus>>
    /\ UNCHANGED <<ivars, dvars, mvars, cvars, fvars, svars, rvars, qvars, nvars, bvars, yvars, tvars>>

----------------------------------------------------------------------------
(* sql_type of the 32-bit integer: the annotation type INTEGER and the     *)
(* ConstrainedInteger built on it.                                         *)

SqlIntType(class, ge, le, m) ==
    [class |-> class, ge |-> ge, le |-> le, multiple_of |-> m]

SqlIntTypes ==
    {SqlIntType(class, ge, le, m) :
        class \in {"INTEGER", "ConstrainedInteger"},
        ge \in {None, Some(-1), Some(0), Some(10)},
        le \in {None, Some(50), Some(100)},
        m \in {None, Some(5), Some(10)}}

\* one condition of a CHECK clause, written "op v" ("% v = 0" for "%")
Clause(op, v) == [op |-> op, v |-> v]

\* an SQL type string: the type name, followed by " CHECK (c1 AND c2 ...)"
\* unless there is no clause
SqlString(name, check) == [name |-> name, check |-> check]

\* INTEGER.sql_type
INTEGER_sql_type(t) == SqlString("INTEGER", <<>>)

\* ConstrainedInteger.sql_type: the base name and a CHECK clause of the
\* declared min_value, max_value and multiple_of
ConstrainedInteger_sql_type(t) ==
    SqlString("INTEGER",
        (IF IsSet(t.ge) THEN <<Clause(">=", Get(t.ge))>> ELSE <<>>)
        \o (IF IsSet(t.le) THEN <<Clause("<=", Get(t.le))>> ELSE <<>>)
        \o (IF IsSet(t.multiple_of) THEN <<Clause("%", Get(t.multiple_of))>>
            ELSE <<>>))

sql_type(t) ==
    IF t.class = "INTEGER" THEN INTEGER_sql_type(t)
    ELSE ConstrainedInteger_sql_type(t)

SqlConstruct ==
    /\ qstatus = "none"
    /\ \E t \in SqlIntTypes : qtype' = t
    /\ qstatus' = "ok"
    /\ UNCHANGED <<qop, qres>>
    /\ UNCHANGED <<ivars, dvars, mvars, cvars, fvars, svars, rvars, xvars, nvars, bvars, yvars, tvars>>

SqlType ==
    /\ qstatus = "ok"
    /\ qop' = "sql_type"
    /\ qres' = sql_type(qtype)
    /\ UNCHANGED <<qtype, qstatus>>
    /\ UNCHANGED <<ivars, dvars, mvars, cvars, fvars, svars, rvars, xvars, nvars, bvars, yvars, tvars>>

----------------------------------------------------------------------------
(* serialize and deserialize of the plain integer types.                   *)

\* INTEGER._serialize: int(value) of a value validate accepted
INTEGER_serialize(value) == Ok(int(value))

\* INTEGER._deserialize: int(value); a numeric string is parsed, a float is
\* truncated toward zero, a non-numeric string raises ValueError and any
\* other object TypeError
INTEGER_deserialize(value) ==
    IF value.kind = "badstr" THEN Err("ValueError", "int")
    ELSE IF value.kind = "other" THEN Err("TypeError", "int")
    ELSE Ok(int(value))

\* DBType.serialize: None passes through, the value is validated, then
\* converted
DBType_serialize(w, value) ==
    IF value.kind = "none" THEN OkNull
    ELSE LET r == INTEGER_validate(w, value) IN
         IF ~r.ok THEN r ELSE INTEGER_serialize(value)

\* DBType.deserialize: None passes through, the value is converted, the
\* converted value is validated and returned
DBType_deserialize(w, value) ==
    IF value.kind = "none" THEN OkNull
    ELSE LET deserialized == INTEGER_deserialize(value) IN
         IF ~deserialized.ok THEN deserialized
         ELSE LET r == INTEGER_validate(w, IntVal(deserialized.value)) IN
              IF ~r.ok THEN r ELSE deserialized

IntSerConstruct ==
    /\ nstatus = "none"
    /\ \E w \in Widths : ntype' = w
    /\ nstatus' = "ok"
    /\ UNCHANGED <<nop, narg, nres>>
    /\ UNCHANGED <<ivars, dvars, mvars, cvars, fvars, svars, rvars, xvars, qvars, bvars, yvars, tvars>>

IntSerValidate ==
    /\ nstatus = "ok"
    /\ \E value \in IntInputs :
          /\ narg' = value
          /\ nres' = INTEGER_validate(ntype, value)
    /\ nop' = "validate"
    /\ UNCHANGED <<ntype, nstatus>>
    /\ UNCHANGED <<ivars, dvars, mvars, cvars, fvars, svars, rvars, xvars, qvars, bvars, yvars, tvars>>

IntSerialize ==
    /\ nstatus = "ok"
    /\ \E value \in IntInputs :
          /\ narg' = value
          /\ nres' = DBType_serialize(ntype, value)
    /\ nop' = "serialize"
    /\ UNCHANGED <<ntype, nstatus>>
    /\ UNCHANGED <<ivars, dvars, mvars, cvars, fvars, svars, rvars, xvars, qvars, bvars, yvars, tvars>>

IntDeserialize ==
    /\ nstatus = "ok"
    /\ \E value \in IntInputs :
          /\ narg' = value
          /\ nres' = DBType_deserialize(ntype, value)
    /\ nop' = "deserialize"
    /\ UNCHANGED <<ntype, nstatus>>
    /\ UNCHANGED <<ivars, dvars, mvars, cvars, fvars, svars, rvars, xvars, qvars, bvars, yvars, tvars>>

----------------------------------------------------------------------------
(* BINARY: fixed-length binary.  A bytes value is the sequence of its      *)
(* bytes, a str the sequence of its (ASCII) code points.                   *)

\* largest declared BINARY length
MaxBinLen == 2

\* bytes that occur in bytes values: 0x00 and "A"
Bytes == {0, 65}

\* code points that occur in str values: "1", "4" and "z"
StrCodes == {49, 52, 122}

BVal(kind, s) == [kind |-> kind, s |-> s]

BNone == BVal("none", <<>>)

BOther == BVal("other", <<>>)

\* an int n is held as <<n>>
BinInputs ==
    {BVal(kind, s) : kind \in {"bytes", "bytearray"},
                     s \in StringsOver(Bytes, MaxBinLen + 1)}
    \cup {BVal("str", s) : s \in StringsOver(StrCodes, MaxBinLen)}
    \cup {BVal("int", <<n>>) : n \in 0..(MaxBinLen + 1)}
    \cup {BNone, BOther}

BOk(s) == [ok |-> TRUE, null |-> FALSE, value |-> s, err |-> ""]

BOkNull == [ok |-> TRUE, null |-> TRUE, value |-> <<>>, err |-> ""]

BErr(kind) == [ok |-> FALSE, null |-> FALSE, value |-> <<>>, err |-> kind]

BNoResult == [ok |-> FALSE, null |-> FALSE, value |-> <<>>, err |-> ""]

\* BINARY.__init__
BINARY_init(length) == IF length <= 0 THEN "error" ELSE "ok"

\* BINARY.validate; a str is measured by its UTF-8 encoding, which for
\* ASCII is its code points
BINARY_validate(length, value) ==
    IF value.kind = "none" THEN BOkNull
    ELSE IF value.kind \notin {"bytes", "bytearray", "str"}
         THEN BErr("TypeMismatch")
    ELSE LET byte_value == value.s IN
         IF Len(byte_value) > length THEN BErr("ConstraintViolation")
         ELSE BOk(byte_value)

\* bytes.ljust(width, b"\x00")
ljust0(s, width) ==
    IF Len(s) >= width THEN s ELSE s \o [i \in 1..(width - Len(s)) |-> 0]

RECURSIVE rstrip0(_)
\* bytes.rstrip(b"\x00")
rstrip0(s) ==
    IF s # <<>> /\ s[Len(s)] = 0
    THEN rstrip0(SubSeq(s, 1, Len(s) - 1))
    ELSE s

\* value of a hexadecimal digit, -1 for any other character
HexVal(c) == IF c = 49 THEN 1 ELSE IF c = 52 THEN 4 ELSE -1

\* bytes.fromhex(s): raises on an odd number of digits and on a character
\* that is no hexadecimal digit
fromhex(s) ==
    IF Len(s) % 2 # 0 \/ \E i \in 1..Len(s) : HexVal(s[i]) < 0
    THEN BErr("ValueError")
    ELSE BOk([i \in 1..(Len(s) \div 2) |->
                16 * HexVal(s[2 * i - 1]) + HexVal(s[2 * i])])

\* BINARY._serialize
BINARY_serialize(length, value) == ljust0(value.s, length)

\* BINARY._deserialize: bytes and bytearray lose their trailing zero bytes,
\* a str is read as hexadecimal or else encoded, anything else goes through
\* bytes(value) (n zero bytes for an int n)
BINARY_deserialize(value) ==
    IF value.kind \in {"bytes", "bytearray"} THEN BOk(rstrip0(value.s))
    ELSE IF value.kind = "str"
         THEN (IF fromhex(value.s).ok THEN fromhex(value.s) ELSE BOk(value.s))
    ELSE IF value.kind = "int" THEN BOk(Zeros(value.s[1]))
    ELSE BErr("TypeError")

\* DBType.deserialize: None passes through, _deserialize, validate, return
\* the deserialized value
BINARY_deserialize_value(length, value) ==
    IF value.kind = "none" THEN BOkNull
    ELSE LET deserialized == BINARY_deserialize(value) IN
         IF ~deserialized.ok THEN deserialized
         ELSE LET r == BINARY_validate(length, BVal("bytes", deserialized.value))
              IN  IF ~r.ok THEN r ELSE deserialized

BinConstruct ==
    /\ bstatus = "none"
    /\ \E length \in 0..MaxBinLen :
          /\ blength' = length
          /\ bstatus' = BINARY_init(length)
    /\ UNCHANGED <<bop, barg, bstore, bres>>
    /\ UNCHANGED <<ivars, dvars, mvars, cvars, fvars, svars, rvars, xvars, qvars, nvars, yvars, tvars>>

BinValidate ==
    /\ bstatus = "ok"
    /\ \E value \in BinInputs :
          /\ barg' = value
          /\ bres' = BINARY_validate(blength, value)
    /\ bop' = "validate"
    /\ bstore' = BNone
    /\ UNCHANGED <<blength, bstatus>>
    /\ UNCHANGED <<ivars, dvars, mvars, cvars, fvars, svars, rvars, xvars, qvars, nvars, yvars, tvars>>

\* DBType.serialize: None passes through, validate, then _serialize
BinSerialize ==
    /\ bstatus = "ok"
    /\ \E value \in BinInputs :
          /\ barg' = value
          /\ bres' = BINARY_validate(blength, value)
          /\ bstore' = IF value.kind # "none" /\ BINARY_validate(blength, value).ok
                       THEN BVal("bytes", BINARY_serialize(blength, value))
                       ELSE BNone
    /\ bop' = "serialize"
    /\ UNCHANGED <<blength, bstatus>>
    /\ UNCHANGED <<ivars, dvars, mvars, cvars, fvars, svars, rvars, xvars, qvars, nvars, yvars, tvars>>

\* DBType.deserialize of what serialize stored
BinDeserialize ==
    /\ bstatus = "ok"
    /\ bop = "serialize"
    /\ bres.ok
    /\ bop' = "deserialize"
    /\ bres' = BINARY_deserialize_value(blength, bstore)
    /\ UNCHANGED <<blength, bstatus, barg, bstore>>
    /\ UNCHANGED <<ivars, dvars, mvars, cvars, fvars, svars, rvars, xvars, qvars, nvars, yvars, tvars>>

\* DBType.deserialize of a value that comes from elsewhere
BinDeserializeValue ==
    /\ bstatus = "ok"
    /\ \E value \in BinInputs :
          /\ barg' = value
          /\ bres' = BINARY_deserialize_value(blength, value)
    /\ bop' = "deserialize_value"
    /\ bstore' = BNone
    /\ UNCHANGED <<blength, bstatus>>
    /\ UNCHANGED <<ivars, dvars, mvars, cvars, fvars, svars, rvars, xvars, qvars, nvars, yvars, tvars>>

----------------------------------------------------------------------------
(* validate_dataclass: a dataclass with the typed fields                   *)
(*     age:  Annotated[int, <integer type>]                                *)
(*     data: Annotated[bytes, BINARY(MaxBinLen)]                           *)
(* whose class attributes are DBTypeDescriptor objects.                    *)

\* an argument left out of the constructor call
Missing == [kind |-> "missing", n |-> 0]

\* values handed to the age field
AgeInputs ==
    {IntVal(5), IntVal(128), IntVal(32768), FloatVal(20), FloatVal(21),
     StrVal(50), BadStrVal, NoneVal, OtherVal}

\* values handed to the data field
DataInputs ==
    {BVal("bytes", <<65>>), BVal("bytes", <<65, 0>>),
     BVal("bytes", [i \in 1..(MaxBinLen + 1) |-> 65]),
     BVal("str", <<52, 49>>), BVal("int", <<MaxBinLen>>), BNone, BOther}

\* the class: width of the integer type of age, and the declared defaults
DcClass(w, age_default, data_default) ==
    [width |-> w, age_default |-> age_default, data_default |-> data_default]

\* a field without default cannot follow a field with one
DcClasses ==
    {DcClass(w, a, d) :
        w \in Widths,
        a \in {None, Some(IntVal(5)), Some(IntVal(32768)), Some(FloatVal(21))},
        d \in {None, Some(BVal("bytes", <<65>>)),
               Some(BVal("bytes", [i \in 1..(MaxBinLen + 1) |-> 65]))}}
    \ {DcClass(w, a, None) : w \in Widths,
          a \in {Some(IntVal(5)), Some(IntVal(32768)), Some(FloatVal(21))}}

\* an instance none of whose private attributes is set; __get__ reads None
NoInstance == [age |-> NoneVal, data |-> BNone]

DcArg(field, age, data) == [field |-> field, age |-> age, data |-> data]

DcReturned == [ok |-> TRUE, err |-> ""]

DcRaised(err) == [ok |-> FALSE, err |-> err]

\* db_type.deserialize of the type of field f
Dc_deserialize(cls, f, value) ==
    IF f = "age"
    THEN LET r == DBType_deserialize(cls.width, value) IN
         [ok |-> r.ok, err |-> r.err,
          stored |-> IF r.ok /\ ~r.null THEN IntVal(r.value) ELSE NoneVal]
    ELSE LET r == BINARY_deserialize_value(MaxBinLen, value) IN
         [ok |-> r.ok, err |-> r.err,
          stored |-> IF r.ok /\ ~r.null THEN BVal("bytes", r.value) ELSE BNone]

\* db_type.validate of the type of field f accepts value
Dc_validate(cls, f, value) ==
    IF f = "age" THEN INTEGER_validate(cls.width, value).ok
    ELSE BINARY_validate(MaxBinLen, value).ok

\* DBTypeDescriptor.__set__: deserialize, then store in the private
\* attribute; an exception leaves the attribute as it was
DBTypeDescriptor_set(cls, obj, f, value) ==
    LET deserialized == Dc_deserialize(cls, f, value) IN
    IF deserialized.ok
    THEN [ok |-> TRUE, err |-> "", obj |-> [obj EXCEPT ![f] = deserialized.stored]]
    ELSE [ok |-> FALSE, err |-> deserialized.err, obj |-> obj]

\* the value the generated __init__ assigns to a field: the argument, or
\* the declared default when the argument is left out
Effective(arg, default) ==
    IF arg # Missing THEN arg ELSE IF IsSet(default) THEN Get(default) ELSE Missing

\* the next assignment of a constructor, skipped once one has raised
ThenSet(cls, s, f, value) ==
    IF s.ok THEN DBTypeDescriptor_set(cls, s.obj, f, value) ELSE s

DcDeclare ==
    /\ ystatus = "none"
    /\ \E cls \in DcClasses : ycls' = cls
    /\ ystatus' = "declared"
    /\ UNCHANGED <<yobj, yprev, yop, yarg, yres>>
    /\ UNCHANGED <<ivars, dvars, mvars, cvars, fvars, svars, rvars, xvars, qvars, nvars, bvars, tvars>>

\* validate_dataclass.new_init: the dataclass __init__ assigns every field
\* through its descriptor (s1, s2), then every field is read back from its
\* private attribute and assigned again (s3, s4); a constructor that raises
\* leaves no instance
DcInit ==
    /\ ystatus = "declared"
    /\ \E age \in AgeInputs \cup {Missing}, data \in DataInputs \cup {Missing} :
       \E a \in {Effective(age, ycls.age_default)} :
       \E d \in {Effective(data, ycls.data_default)} :
       \E s1 \in {IF a = Missing \/ d = Missing
                   THEN [ok |-> FALSE, err |-> "TypeError", obj |-> NoInstance]
                   ELSE DBTypeDescriptor_set(ycls, NoInstance, "age", a)} :
       \E s2 \in {ThenSet(ycls, s1, "data", d)} :
       \E s3 \in {ThenSet(ycls, s2, "age", s2.obj.age)} :
       \E r \in {ThenSet(ycls, s3, "data", s3.obj.data)} :
          /\ yarg' = DcArg("all", a, d)
          /\ yres' = IF r.ok THEN DcReturned ELSE DcRaised(r.err)
          /\ yobj' = IF r.ok THEN r.obj ELSE NoInstance
          /\ ystatus' = IF r.ok THEN "live" ELSE "declared"
    /\ yprev' = NoInstance
    /\ yop' = "init"
    /\ UNCHANGED ycls
    /\ UNCHANGED <<ivars, dvars, mvars, cvars, fvars, svars, rvars, xvars, qvars, nvars, bvars, tvars>>

\* instance.<field> = value
DcSet ==
    /\ ystatus = "live"
    /\ \E f \in {"age", "data"} :
       \E value \in (IF f = "age" THEN AgeInputs ELSE DataInputs) :
          LET r == DBTypeDescriptor_set(ycls, yobj, f, value) IN
          /\ yarg' = IF f = "age" THEN DcArg(f, value, BNone)
                     ELSE DcArg(f, NoneVal, value)
          /\ yres' = IF r.ok THEN DcReturned ELSE DcRaised(r.err)
          /\ yobj' = r.obj
    /\ yprev' = yobj
    /\ yop' = "set"
    /\ UNCHANGED <<ycls, ystatus>>
    /\ UNCHANGED <<ivars, dvars, mvars, cvars, fvars, svars, rvars, xvars, qvars, nvars, bvars, tvars>>

\* del instance.<field>: DBTypeDescriptor.__delete__ removes the private
\* attribute, after which __get__ reads None
DcDelete ==
    /\ ystatus = "live"
    /\ \E f \in {"age", "data"} :
          /\ yarg' = DcArg(f, NoneVal, BNone)
          /\ yobj' = [yobj EXCEPT ![f] = NoInstance[f]]
    /\ yres' = DcReturned
    /\ yprev' = yobj
    /\ yop' = "delete"
    /\ UNCHANGED <<ycls, ystatus>>
    /\ UNCHANGED <<ivars, dvars, mvars, cvars, fvars, svars, rvars, xvars, qvars, nvars, bvars, tvars>>

----------------------------------------------------------------------------
(* Calls of several threads on one shared descriptor.  A call of serialize *)
(* or deserialize reads the descriptor in two steps (validate, and the     *)
(* conversion), between which another thread may run.                      *)

Threads == {1, 2}

Call(op, arg) == [op |-> op, arg |-> arg]

NoCall == Call("none", NoneVal)

\* values handed to the shared descriptor
SharedInputs ==
    {IntVal(5), IntVal(128), FloatVal(21), StrVal(50), BadStrVal, NoneVal}

Calls ==
    {Call(op, value) : op \in {"validate", "serialize", "deserialize"},
                       value \in SharedInputs}
    \cup {Call("mock", DrawArg(side, k)) : side \in {"lo", "hi"}, k \in 0..1}

\* what a call returns when nothing else runs, on the descriptor desc
Outcome(desc, call) ==
    IF call.op = "validate" THEN INTEGER_validate(desc.width, call.arg)
    ELSE IF call.op = "serialize" THEN DBType_serialize(desc.width, call.arg)
    ELSE IF call.op = "deserialize" THEN DBType_deserialize(desc.width, call.arg)
    ELSE mock(desc, call.arg.kind, call.arg.n)

ShConstruct ==
    /\ tstatus = "none"
    /\ \E w \in Widths : tdesc' = IntType(w, None, None, None, None, None)
    /\ tstatus' = "ok"
    /\ UNCHANGED <<tpc, tcall, tret>>
    /\ UNCHANGED <<ivars, dvars, mvars, cvars, fvars, svars, rvars, xvars, qvars, nvars, bvars, yvars>>

\* thread t calls an operation of the descriptor
ShCall(t) ==
    /\ tstatus = "ok"
    /\ tpc[t] \in {"idle", "done"}
    /\ \E call \in Calls : tcall' = [tcall EXCEPT ![t] = call]
    /\ tpc' = [tpc EXCEPT ![t] = "called"]
    /\ tret' = [tret EXCEPT ![t] = NoResult]
    /\ UNCHANGED <<tdesc, tstatus>>
    /\ UNCHANGED <<ivars, dvars, mvars, cvars, fvars, svars, rvars, xvars, qvars, nvars, bvars, yvars>>

\* first part of the call: validate and mock run whole; serialize returns
\* None for None and validates; deserialize returns None for None and
\* converts
ShBegin(t) ==
    /\ tpc[t] = "called"
    /\ LET op == tcall[t].op
           arg == tcall[t].arg
           r == IF op = "validate" THEN INTEGER_validate(tdesc.width, arg)
                ELSE IF op = "mock" THEN mock(tdesc, arg.kind, arg.n)
                ELSE IF arg.kind = "none" THEN OkNull
                ELSE IF op = "serialize" THEN INTEGER_validate(tdesc.width, arg)
                ELSE INTEGER_deserialize(arg)
           more == op \in {"serialize", "deserialize"} /\ r.ok /\ ~r.null
       IN  /\ tret' = [tret EXCEPT ![t] = r]
           /\ tpc' = [tpc EXCEPT ![t] = IF more THEN "mid" ELSE "done"]
    /\ UNCHANGED <<tdesc, tstatus, tcall>>
    /\ UNCHANGED <<ivars, dvars, mvars, cvars, fvars, svars, rvars, xvars, qvars, nvars, bvars, yvars>>

\* ShFinish on a descriptor that widens itself when a deserialized value
\* does not fit
ShFinish_Widens(t) ==
    /\ tpc[t] = "mid"
    /\ LET r == INTEGER_validate(tdesc.width, IntVal(tret[t].value)) IN
       IF tcall[t].op = "serialize"
       THEN /\ tret' = [tret EXCEPT ![t] = INTEGER_serialize(tcall[t].arg)]
            /\ tdesc' = tdesc
       ELSE /\ tret' = [tret EXCEPT ![t] = IF r.ok THEN tret[t] ELSE r]
            /\ tdesc' = IF r.ok THEN tdesc ELSE [tdesc EXCEPT !.width = "SMALLINT"]
    /\ tpc' = [tpc EXCEPT ![t] = "done"]
    /\ UNCHANGED <<tstatus, tcall>>
    /\ UNCHANGED <<ivars, dvars, mvars, cvars, fvars, svars, rvars, xvars, qvars, nvars, bvars, yvars>>

\* second part of the call: serialize converts the validated value,
\* deserialize validates the converted value and returns it
ShFinish(t) ==
    /\ tpc[t] = "mid"
    /\ LET r == INTEGER_validate(tdesc.width, IntVal(tret[t].value)) IN
       IF tcall[t].op = "serialize"
       THEN tret' = [tret EXCEPT ![t] = INTEGER_serialize(tcall[t].arg)]
       ELSE tret' = [tret EXCEPT ![t] = IF r.ok THEN tret[t] ELSE r]
    /\ tpc' = [tpc EXCEPT ![t] = "done"]
    /\ UNCHANGED <<tdesc, tstatus, tcall>>
    /\ UNCHANGED <<ivars, dvars, mvars, cvars, fvars, svars, rvars, xvars, qvars, nvars, bvars, yvars>>

----------------------------------------------------------------------------

Init ==
    /\ itype = NoIntType
    /\ istatus = "none"
    /\ iop = "none"
    /\ iarg = NoArg
    /\ ires = NoResult
    /\ dtype = [precision |-> 1, scale |-> 0]
    /\ dstatus = "none"
    /\ dop = "none"
    /\ darg = DNoArg
    /\ dres = DNoResult
    /\ dstore = NoStore
    /\ mtype = NoDecType
    /\ mstatus = "none"
    /\ mop = "none"
    /\ mpc = "idle"
    /\ attempts = 0
    /\ mres = MNoResult
    /\ clength = 1
    /\ cstatus = "none"
    /\ cop = "none"
    /\ carg = CNone
    /\ cstore = CNone
    /\ cres = CNoResult
    /\ ftype = [precision |-> None]
    /\ fstatus = "none"
    /\ fop = "none"
    /\ farg = FNone
    /\ fres = FNoResult
    /\ stype = NoStrType
    /\ sstatus = "none"
    /\ sop = "none"
    /\ sarg = CNone
    /\ sres = SNoResult
    /\ rop = "none"
    /\ rarg = RNone
    /\ rres = FNoResult
    /\ xtype = NoFloatType
    /\ xstatus = "none"
    /\ xop = "none"
    /\ xarg = 0
    /\ xres = MNoResult
    /\ qtype = SqlIntType("INTEGER", None, None, None)
    /\ qstatus = "none"
    /\ qop = "none"
    /\ qres = SqlString("", <<>>)
    /\ ntype = "TINYINT"
    /\ nstatus = "none"
    /\ nop = "none"
    /\ narg = NoneVal
    /\ nres = NoResult
    /\ blength = 1
    /\ bstatus = "none"
    /\ bop = "none"
    /\ barg = BNone
    /\ bstore = BNone
    /\ bres = BNoResult
    /\ ycls = DcClass("TINYINT", None, None)
    /\ ystatus = "none"
    /\ yobj = NoInstance
    /\ yprev = NoInstance
    /\ yop = "none"
    /\ yarg = DcArg("none", NoneVal, BNone)
    /\ yres = DcReturned
    /\ tdesc = NoIntType
    /\ tstatus = "none"
    /\ tpc = [t \in Threads |-> "idle"]
    /\ tcall = [t \in Threads |-> NoCall]
    /\ tret = [t \in Threads |-> NoResult]

Next == IntConstruct \/ IntValidate \/ IntMock

Spec == Init /\ [][Next]_vars

NextDecimal == DecConstruct \/ DecValidate \/ DecSerialize \/ DecDeserialize

SpecDecimal == Init /\ [][NextDecimal]_vars

NextDecMock == MockConstruct \/ MockCall \/ MockAttempt \/ MockValidate

SpecDecMock == Init /\ [][NextDecMock]_vars

\* a running mock() is not suspended: its loop keeps taking passes
SpecDecMockFair == SpecDecMock /\ WF_vars(MockAttempt)

NextChar == CharConstruct \/ CharValidate \/ CharSerialize \/ CharDeserialize

SpecChar == Init /\ [][NextChar]_vars

NextFloat == FloatConstruct \/ FloatValidate

SpecFloat == Init /\ [][NextFloat]_vars

NextString == StrConstruct \/ StrValidate \/ StrMock

SpecString == Init /\ [][NextString]_vars

NextReal == RealValidate

SpecReal == Init /\ [][NextReal]_vars

NextFloatMock == FloatMockConstruct \/ FloatMock

SpecFloatMock == Init /\ [][NextFloatMock]_vars

NextSql == SqlConstruct \/ SqlType

SpecSql == Init /\ [][NextSql]_vars

NextIntSer == IntSerConstruct \/ IntSerValidate \/ IntSerialize \/ IntDeserialize

SpecIntSer == Init /\ [][NextIntSer]_vars

NextBinary ==
    BinConstruct \/ BinValidate \/ BinSerialize \/ BinDeserialize \/ BinDeserializeValue

SpecBinary == Init /\ [][NextBinary]_vars

NextDataclass == DcDeclare \/ DcInit \/ DcSet \/ DcDelete

SpecDataclass == Init /\ [][NextDataclass]_vars

NextShared == ShConstruct \/ \E t \in Threads : ShCall(t) \/ ShBegin(t) \/ ShFinish(t)

SpecShared == Init /\ [][NextShared]_vars

----------------------------------------------------------------------------
(* What a value must satisfy, stated independently of validate and mock.   *)

InStorage(w, v) == MIN_VALUE(w) <= v /\ v <= MAX_VALUE(w)

SatisfiesBounds(t, v) ==
    /\ IsSet(t.gt) => v > Get(t.gt)
    /\ IsSet(t.ge) => v >= Get(t.ge)
    /\ IsSet(t.lt) => v < Get(t.lt)
    /\ IsSet(t.le) => v <= Get(t.le)

SatisfiesMultiple(t, v) ==
    IsSet(t.multiple_of) =>
        (v \div Get(t.multiple_of)) * Get(t.multiple_of) = v

\* the subset of {gt, ge, lt, le, multiple_of} that v violates
Violated(t, v) ==
    {c \in {"gt"} : IsSet(t.gt) /\ v <= Get(t.gt)}
    \cup {c \in {"ge"} : IsSet(t.ge) /\ v < Get(t.ge)}
    \cup {c \in {"lt"} : IsSet(t.lt) /\ v >= Get(t.lt)}
    \cup {c \in {"le"} : IsSet(t.le) /\ v > Get(t.le)}
    \cup {c \in {"multiple_of"} : ~SatisfiesMultiple(t, v)}

ConstraintOrder == <<"gt", "ge", "lt", "le", "multiple_of">>

FirstInOrder(V) ==
    LET i == CHOOSE j \in 1..5 :
                /\ ConstraintOrder[j] \in V
                /\ \A k \in 1..(j - 1) : ConstraintOrder[k] \notin V
    IN ConstraintOrder[i]

\* lowest and highest integer that the storage range and every declared
\* ordering bound allow
TrueLow(t) ==
    Max(MIN_VALUE(t.width),
        Max(IF IsSet(t.gt) THEN Get(t.gt) + 1 ELSE MIN_VALUE(t.width),
            IF IsSet(t.ge) THEN Get(t.ge) ELSE MIN_VALUE(t.width)))

TrueHigh(t) ==
    Min(MAX_VALUE(t.width),
        Min(IF IsSet(t.lt) THEN Get(t.lt) - 1 ELSE MAX_VALUE(t.width),
            IF IsSet(t.le) THEN Get(t.le) ELSE MAX_VALUE(t.width)))

\* no integer of the storage range satisfies the declared bounds and is a
\* multiple of multiple_of
TrueDomainEmpty(t) ==
    \A v \in TrueLow(t)..Min(TrueHigh(t), TrueLow(t) + Step(t) - 1) :
        ~SatisfiesMultiple(t, v)

\* some integer satisfies the declared ordering bounds taken alone
AdmitsInteger(t) == \E v \in -202..202 : SatisfiesBounds(t, v)

\* validate got past coercion: a native integer or an integral float
Coerced(value) ==
    \/ value.kind = "int"
    \/ value.kind = "float" /\ is_integer(value.n)

MockResults(t) == {mock(t, side, k) : side \in {"lo", "hi"}, k \in 0..MaxDraw}

SameOutcomes(t, u) ==
    /\ MockResults(t) = MockResults(u)
    /\ \A x \in IntInputs : validate(t, x).ok = validate(u, x).ok

----------------------------------------------------------------------------
(* Claims.                                                                 *)

\* C1: every value returned by integer mock() lies inside the storage range
\* of the width and satisfies every declared gt/ge/lt/le, also when both gt
\* and ge, or both lt and le, are declared.
C1_MockWithinAllBounds ==
    (iop = "mock" /\ ires.ok) =>
        /\ InStorage(itype.width, ires.value)
        /\ SatisfiesBounds(itype, ires.value)

\* C2: a declared bound equal to 0 is a set bound: validate enforces it and
\* every mock() result satisfies it.
C2_ZeroBoundIsSet ==
    /\ (iop \in {"validate", "mock"} /\ ires.ok /\ ~ires.null) =>
          /\ itype.gt = Some(0) => ires.value > 0
          /\ itype.ge = Some(0) => ires.value >= 0
          /\ itype.lt = Some(0) => ires.value < 0
          /\ itype.le = Some(0) => ires.value <= 0
    /\ (iop = "validate" /\ iarg = IntVal(0) /\ ~ires.ok) =>
          (itype.ge = Some(0) => ires.which # "ge") /\
          (itype.le = Some(0) => ires.which # "le")

\* C3: with multiple_of = m every mock() result is a multiple of m inside
\* the declared bounds and the storage range; for gt=0, le=100,
\* multiple_of=10, validate(100) passes, validate(15) raises
\* ConstraintViolation and every mock() result is in {10, 20, ..., 100}.
C3_MultipleOfDomain ==
    /\ (iop = "mock" /\ ires.ok /\ IsSet(itype.multiple_of)) =>
          /\ SatisfiesMultiple(itype, ires.value)
          /\ InStorage(itype.width, ires.value)
          /\ SatisfiesBounds(itype, ires.value)
    /\ (/\ itype.gt = Some(0) /\ itype.le = Some(100)
        /\ itype.ge = None /\ itype.lt = None
        /\ itype.multiple_of = Some(10)) =>
          /\ (iop = "mock" /\ ires.ok) =>
                ires.value \in {10 * q : q \in 1..10}
          /\ (iop = "validate" /\ iarg = IntVal(100)) => ires.ok
          /\ (iop = "validate" /\ iarg = IntVal(15)) =>
                ires.err = "ConstraintViolation"

\* C4: when no integer is left after intersecting the declared bounds with
\* the storage range and narrowing to the multiples of multiple_of, mock()
\* raises ImpossibleConstraintSet and returns no value.
C4_EmptyDomainRaises ==
    (iop = "mock" /\ TrueDomainEmpty(itype)) =>
        ~ires.ok /\ ires.err = "ImpossibleConstraintSet"

C6_BoundsOnlyNarrow ==
    istatus = "ok" =>
        /\ (IsSet(itype.le) /\ Get(itype.le) > MAX_VALUE(itype.width)) =>
              SameOutcomes(itype, [itype EXCEPT !.le = None])
        /\ (IsSet(itype.ge) /\ Get(itype.ge) < MIN_VALUE(itype.width)) =>
              SameOutcomes(itype, [itype EXCEPT !.ge = None])
        /\ (IsSet(itype.gt) /\ Get(itype.gt) < MIN_VALUE(itype.width)) =>
              SameOutcomes(itype, [itype EXCEPT !.gt = None])
        /\ (iop \in {"validate", "mock"} /\ ires.ok /\ ~ires.null) =>
              InStorage(itype.width, ires.value)

\* C7: in integer validate the storage check comes before every declared
\* constraint: a coerced value outside the storage range is rejected with
\* OutOfStorageRange whatever declared constraint it also violates.
C7_StorageCheckFirst ==
    (/\ iop = "validate"
     /\ Coerced(iarg)
     /\ ~InStorage(itype.width, int(iarg))) =>
        ~ires.ok /\ ires.err = "OutOfStorageRange"

C7_Witness ==
    /\ iop = "validate"
    /\ itype.width = "TINYINT" /\ itype.gt = Some(0)
    /\ iarg = IntVal(-129)
    /\ ires.err = "OutOfStorageRange"

C9_IntegerCoercion ==
    iop = "validate" =>
        /\ iarg.kind = "int" =>
              ires.err # "TypeMismatch" /\ (ires.ok => ires.value = iarg.n)
        /\ (iarg.kind = "float" /\ is_integer(iarg.n)) =>
              ires.err # "TypeMismatch" /\ (ires.ok => 2 * ires.value = iarg.n)
        /\ iarg.kind = "str" =>
              ires.err # "TypeMismatch" /\ (ires.ok => ires.value = iarg.n)
        /\ (iarg.kind = "float" /\ ~is_integer(iarg.n)) =>
              ires.err = "TypeMismatch"
        /\ iarg.kind \in {"badstr", "other"} => ires.err = "TypeMismatch"

\* digits left of the decimal point of a value written without exponent
IntegerDigits(d) ==
    IF d.coef = 0 THEN 0 ELSE Max(NumDigits(d.coef) + d.exp, 0)

IsNumber(value) == value.kind \in {"int", "float", "Decimal", "str"}

\* C10: DECIMAL(precision, scale) validate raises PrecisionOverflow for
\* every value with more than precision - scale integer digits, however it
\* is written; DECIMAL(5,2) accepts 999.99 and rejects 1000.00.
C10_IntegerDigitsOverflow ==
    dop = "validate" =>
        /\ (/\ IsNumber(darg)
            /\ IntegerDigits(darg.d) > dtype.precision - dtype.scale) =>
              ~dres.ok /\ dres.err = "PrecisionOverflow"
        /\ (/\ dtype = [precision |-> 5, scale |-> 2]
            /\ darg = DecVal("Decimal", Dec(0, 99999, -2))) => dres.ok

\* digits right of the decimal point
FractionalDigits(d) == IF d.exp < 0 THEN -d.exp ELSE 0

\* d rounded half-up (on its magnitude) to scale fractional digits
RoundHalfUp(d, scale) ==
    LET k == FractionalDigits(d) - scale IN
    IF k <= 0 THEN d
    ELSE Dec(d.sign, (d.coef + 5 * Pow10(k - 1)) \div Pow10(k), -scale)

\* C11: a value with more fractional digits than scale is, in the default
\* non-strict mode, rounded half-up to scale digits, checked further as the
\* rounded value and returned (strict mode raises PrecisionOverflow);
\* DECIMAL(5,2) turns "10.999" into 11.00.
C11_RoundsHalfUp ==
    (/\ dop = "validate"
     /\ IsNumber(darg)
     /\ FractionalDigits(darg.d) > dtype.scale
     /\ IntegerDigits(RoundHalfUp(darg.d, dtype.scale))
            <= dtype.precision - dtype.scale) =>
        dres.ok /\ dres.value = RoundHalfUp(darg.d, dtype.scale)

RECURSIVE Pow5(_)
Pow5(k) == IF k <= 0 THEN 1 ELSE 5 * Pow5(k - 1)

\* the binary float written as d holds exactly the value d
FloatExact(d) == d.exp >= 0 \/ d.coef % Pow5(-d.exp) = 0

RECURSIVE Normal(_)
\* d without the trailing zeros of its coefficient; zero has one form
Normal(d) ==
    IF d.coef = 0 THEN Dec(0, 0, 0)
    ELSE IF d.coef % 10 = 0 THEN Normal(Dec(d.sign, d.coef \div 10, d.exp + 1))
    ELSE d

\* a == b between two Decimals
DecimalEq(a, b) == Normal(a) = Normal(b)

\* result == x as Python compares the Decimal result with the argument
PyEq(result, x) ==
    CASE x.kind = "none" -> result.null
      [] x.kind \in {"Decimal", "int"} ->
            ~result.null /\ DecimalEq(result.value, x.d)
      [] x.kind = "float" ->
            ~result.null /\ DecimalEq(result.value, x.d) /\ FloatExact(x.d)
      [] OTHER -> FALSE

\* x has at most scale fractional digits and the type accepts it
Accepted(t, x) ==
    /\ DECIMAL_validate(t, x).ok
    /\ (IsNumber(x) => FractionalDigits(x.d) <= t.scale)

\* C12 as stated: deserialize(serialize(x)) == x for any accepted x with at
\* most scale fractional digits, whatever its kind.
C12_RoundTripAnyAccepted ==
    (dop = "deserialize" /\ Accepted(dtype, darg)) =>
        dres.ok /\ PyEq(dres, darg)

\* C12: for an accepted x with at most scale fractional digits,
\* deserialize(serialize(x)) succeeds and is the Decimal written as x, with
\* the same sign, coefficient and exponent; it compares equal to x when x is
\* a Decimal or an int, and None comes back as None.
C12_RoundTripDecimal ==
    (dop = "deserialize" /\ Accepted(dtype, darg)) =>
        /\ dres.ok
        /\ (darg.kind = "none" => dres.null)
        /\ (IsNumber(darg) => ~dres.null /\ dres.value = darg.d)
        /\ (darg.kind \in {"Decimal", "int"} => PyEq(dres, darg))

C12_Witness ==
    /\ dop = "deserialize"
    /\ dtype = [precision |-> 5, scale |-> 2]
    /\ darg = DecVal("Decimal", Dec(1, 5, -2))
    /\ dstore = NumStr(TRUE, <<0>>, <<0, 5>>, 0)
    /\ dres = DOk(Dec(1, 5, -2))

\* n, in units of 10^-scale, fits the precision and meets every declared
\* constraint of t
ValidScaled(t, n) ==
    /\ -Pow10(t.precision) < n /\ n < Pow10(t.precision)
    /\ \A b \in t.gt : n > b
    /\ \A b \in t.ge : n >= b
    /\ \A b \in t.lt : n < b
    /\ \A b \in t.le : n <= b
    /\ \A m \in t.multiple_of : (n \div m) * m = n

Satisfiable(t) ==
    \E n \in (1 - Pow10(t.precision))..(Pow10(t.precision) - 1) :
        ValidScaled(t, n)

\* C14: mock() raises ImpossibleConstraintSet only when no value of the
\* type satisfies the declared constraints; for every satisfiable set,
\* however narrow (gt=0 and le=0.1 on a DECIMAL(2,1)), it returns a valid
\* value.
C14_ImpossibleMeansUnsatisfiable ==
    (mop = "mock" /\ mpc = "done") =>
        IF Satisfiable(mtype)
        THEN mres.ok /\ ValidScaled(mtype, mres.value)
        ELSE mres.err = "ImpossibleConstraintSet"

\* the length of v lies between min_length and the capacity of t
LengthInBounds(t, v) ==
    /\ \A n \in t.min_length : Len(v) >= n
    /\ \A n \in t.capacity : Len(v) <= n

\* C15: every mock() result of a string type starts with the declared
\* prefix, ends with the declared suffix and has a length between
\* min_length and the capacity.
C15_MockHasPrefixAndSuffix ==
    (sop = "mock" /\ sres.ok) =>
        /\ startswith(sres.value, stype.startswith)
        /\ endswith(sres.value, stype.endswith)
        /\ LengthInBounds(stype, sres.value)

\* C16: for every constructible string type the value returned by mock()
\* is accepted by validate of the same type.
C16_MockPassesValidate ==
    (sop = "mock" /\ sres.ok) => STR_validate(stype, CStr(sres.value)).ok

\* C17: a constructed string type has min_length <= capacity and
\* len(startswith) + len(endswith) <= capacity, and construction with
\* len(startswith) + len(endswith) > capacity fails with
\* ImpossibleConstraintSet, for VARCHAR, CHAR and TEXT alike.
C17_StringConstructionInvariant ==
    /\ sstatus = "ok" =>
          \A cap \in stype.capacity :
              /\ Len(stype.startswith) + Len(stype.endswith) <= cap
              /\ \A n \in stype.min_length : n <= cap
    /\ (/\ sstatus # "none"
        /\ \E cap \in stype.capacity :
              Len(stype.startswith) + Len(stype.endswith) > cap) =>
          sstatus = "ImpossibleConstraintSet"

C17_Witness ==
    /\ sstatus = "ImpossibleConstraintSet"
    /\ stype.kind = "TEXT"
    /\ stype.capacity = Some(2)
    /\ stype.startswith = <<"A", "a">>
    /\ stype.endswith = <<"a">>
    /\ sop = "none"

\* the value validate checks: stripped if requested, then case-transformed
Normalised(t, s) ==
    LET stripped ==
            IF t.strip_whitespace
            THEN LET keep == {i \in 1..Len(s) :
                                 /\ \E j \in 1..i : ~IsSpace(s[j])
                                 /\ \E j \in i..Len(s) : ~IsSpace(s[j])}
                 IN  [i \in 1..Cardinality(keep) |->
                        s[i + Cardinality({j \in 1..Len(s) :
                                             \A k \in keep : j < k})]]
            ELSE s
    IN  [i \in 1..Len(stripped) |->
            IF t.case = "lower" /\ stripped[i] = "A" THEN "a"
            ELSE IF t.case = "upper" /\ stripped[i] = "a" THEN "A"
            ELSE stripped[i]]

\* the checks a normalised value fails
FailingSteps(t, w) ==
    {step \in {"startswith", "endswith", "length"} :
        \/ step = "startswith" /\ ~startswith(w, t.startswith)
        \/ step = "endswith" /\ ~endswith(w, t.endswith)
        \/ step = "length" /\ ~LengthInBounds(t, w)}

StepOrder == <<"startswith", "endswith", "length">>

FirstFailing(steps) ==
    StepOrder[CHOOSE i \in 1..3 :
                 /\ StepOrder[i] \in steps
                 /\ \A j \in 1..(i - 1) : StepOrder[j] \notin steps]

\* C18: string validate strips (if requested), applies the case transform,
\* then checks prefix, suffix and length in this order on the resulting
\* value; the first failing check is the one reported and a value failing
\* none is returned normalised.
C18_StringPipelineOrder ==
    (sop = "validate" /\ sarg.kind = "str") =>
        LET w == Normalised(stype, sarg.s)
            failing == FailingSteps(stype, w)
        IN  IF failing = {} THEN sres = SOk(w)
            ELSE sres = SErr("ConstraintViolation", FirstFailing(failing))

C18_Witness ==
    /\ sop = "validate"
    /\ stype = StrType("VARCHAR", Some(2), None, <<"A">>, <<"a">>, TRUE, "upper")
    /\ sarg = CStr(<<" ", "a">>)
    /\ sres = SErr("ConstraintViolation", "endswith")

\* s ends with a whitespace character
TrailingWhitespace(s) == s # <<>> /\ IsSpace(s[Len(s)])

\* C19: CHAR(n) serialize stores a valid s followed by spaces up to exactly
\* n characters and deserialize right-trims it: deserialize(serialize(s))
\* is s for every valid s without trailing whitespace, and is not s when s
\* has trailing whitespace.
C19_CharRoundTrip ==
    (cop = "deserialize" /\ carg.kind = "str") =>
        /\ Len(cstore.s) = clength
        /\ \A i \in 1..clength :
              cstore.s[i] = IF i <= Len(carg.s) THEN carg.s[i] ELSE " "
        /\ cres.ok
        /\ (cres.value = carg.s) <=> ~TrailingWhitespace(carg.s)

C19_Witness ==
    /\ cop = "deserialize"
    /\ clength = 3
    /\ carg = CStr(<<" ", "a">>)
    /\ cstore = CStr(<<" ", "a", " ">>)
    /\ cres = COk(<<" ", "a">>)

\* C20: FLOAT validate accepts every finite double and, as the type is not
\* declared with allow_inf_nan, rejects +Infinity, -Infinity and NaN with
\* ConstraintViolation.
C20_FloatRejectsNonFinite ==
    (fop = "validate" /\ farg.kind = "float") =>
        IF farg.class = "finite" THEN fres.ok
        ELSE fres = FErr("ConstraintViolation")

\* the magnitude of a finite non-zero value exceeds 3.4028e38
AboveRealMax(v) == v.e > 38 \/ (v.e = 38 /\ v.m > 340)

\* the magnitude of a finite non-zero value is below 1.1755e-38
BelowRealMinPositive(v) == v.e < -38 \/ (v.e = -38 /\ v.m < 118)

\* C21: REAL validate accepts 0, 0.0 and -0.0 and every finite value whose
\* magnitude lies within [1.1755e-38, 3.4028e38]; a larger magnitude raises
\* "exceeds REAL precision" and a smaller non-zero one "too small for REAL
\* precision".
C21_RealMagnitude ==
    (rop = "validate" /\ rarg.kind \in {"int", "float"}) =>
        /\ rarg.class = "zero" => rres.ok
        /\ rarg.class = "finite" =>
              IF AboveRealMax(rarg) THEN rres = FErr("exceeds REAL precision")
              ELSE IF BelowRealMinPositive(rarg)
                   THEN rres = FErr("too small for REAL precision")
              ELSE rres.ok

\* C22: REAL validate accepts +Infinity, -Infinity and NaN, and FLOAT
\* validate, which has no allow_inf_nan declared, rejects them.
C22_RealAllowsNonFiniteFloatDoesNot ==
    (fop = "validate" /\ farg.class \in {"inf", "-inf", "nan"}) =>
        /\ REAL_validate(RNonFinite(farg.class)).ok
        /\ ~fres.ok

\* C23: every value returned by float mock() lies within the storage range
\* and the declared bounds, is strictly above a declared gt and strictly
\* below a declared lt, and is a multiple of a declared multiple_of.
C23_FloatMockWithinBounds ==
    (xop = "mock" /\ xres.ok) =>
        /\ -FloatStorageMax <= xres.value /\ xres.value <= FloatStorageMax
        /\ \A b \in xtype.gt : xres.value > b
        /\ \A b \in xtype.ge : xres.value >= b
        /\ \A b \in xtype.lt : xres.value < b
        /\ \A b \in xtype.le : xres.value <= b
        /\ \A m \in xtype.multiple_of : (xres.value \div m) * m = xres.value

\* C25: multiple_of is strictly positive on every constructed integer
\* type: construction with multiple_of <= 0 fails, and validate and mock
\* only ever run on a type whose multiple_of is unset or positive.
C25_MultipleOfPositive ==
    /\ (istatus # "none" /\ \E m \in itype.multiple_of : m <= 0) =>
          istatus = "InvalidMultipleOf" /\ iop = "none"
    /\ iop \in {"validate", "mock"} => \A m \in itype.multiple_of : m > 0

C25_Witness ==
    /\ istatus = "InvalidMultipleOf"
    /\ itype.multiple_of = Some(-5)
    /\ iop = "none"

\* the declared constraints of t as CHECK conditions, in the order ge, le,
\* multiple_of
DeclaredClauses(t) ==
    LET all == <<[set |-> t.ge, op |-> ">="], [set |-> t.le, op |-> "<="],
                 [set |-> t.multiple_of, op |-> "%"]>>
        declared == SelectSeq(all, LAMBDA c : c.set # {})
    IN  [i \in 1..Len(declared) |->
            Clause(declared[i].op, CHOOSE v \in declared[i].set : TRUE)]

\* C26: sql_type of a type with declared constraints carries a CHECK
\* clause made of exactly those constraints (ge=0, le=100, multiple_of=10
\* gives "INTEGER CHECK (>= 0 AND <= 100 AND % 10 = 0)"), and a type
\* without declared constraints gives the bare type name.
C26_SqlTypeCheckClause ==
    qop = "sql_type" => qres = SqlString("INTEGER", DeclaredClauses(qtype))

\* C27: integer deserialize never returns a result for an input that
\* validate rejects: a float with a fractional part (10.5) or a
\* non-numeric input raises instead of being truncated or converted.
C27_DeserializeAsStrictAsValidate ==
    (nop = "deserialize" /\ nres.ok /\ ~nres.null)
        => INTEGER_validate(ntype, narg).ok

\* C28: every value a successful DECIMAL(precision, scale) validate returns
\* fits the declared type: at most scale fractional digits and at most
\* precision - scale integer digits, also after half-up rounding carried
\* into a new integer digit (999.995 for DECIMAL(5,2) is not returned as
\* 1000.00).
C28_ValidatedValueFits ==
    (dop = "validate" /\ dres.ok /\ ~dres.null) =>
        /\ FractionalDigits(dres.value) <= dtype.scale
        /\ IntegerDigits(dres.value) <= dtype.precision - dtype.scale

\* C30: BINARY(n) serialize returns exactly n bytes, the value followed by
\* zero bytes, and deserialize(serialize(b)) is b for every bytes value b
\* that validate accepts, also when the last byte of b is 0x00.
C30_BinaryRoundTrip ==
    (bop = "deserialize" /\ barg.kind = "bytes") =>
        /\ Len(bstore.s) = blength
        /\ \A i \in 1..blength :
              bstore.s[i] = IF i <= Len(barg.s) THEN barg.s[i] ELSE 0
        /\ bres.ok
        /\ bres.value = barg.s

\* the fields an operation assigns
Assigned(arg) == IF arg.field = "all" THEN {"age", "data"} ELSE {arg.field}

\* C29: on an instance of a validate_dataclass class every typed field
\* holds None or the deserialized form of the last successfully assigned
\* value, which the field's type validates; a construction or assignment
\* with a value the type's validate rejects (a default included) raises,
\* and an operation that raises stores nothing.
C29_DataclassFieldsValid ==
    /\ \A f \in {"age", "data"} : Dc_validate(ycls, f, yobj[f])
    /\ yop \in {"init", "set"} =>
          /\ (\E f \in Assigned(yarg) : ~Dc_validate(ycls, f, yarg[f]))
                => ~yres.ok
          /\ yres.ok => \A f \in {"age", "data"} :
                yobj[f] = IF f \in Assigned(yarg)
                          THEN Dc_deserialize(ycls, f, yarg[f]).stored
                          ELSE yprev[f]
          /\ ~yres.ok => yobj = yprev

\* C24: no validate, serialize, deserialize or mock call changes the
\* descriptor it is called on: through every interleaving of the calls of
\* several threads the storage width and the declared constraints stay as
\* constructed, and every finished call has the outcome the same call has
\* on a fresh equal descriptor with nothing else running.
C24_DescriptorNeverMutated ==
    [][tstatus = "ok" =>
          /\ tdesc' = tdesc
          /\ \A t \in Threads :
                tpc'[t] = "done" => tret'[t] = Outcome(tdesc, tcall'[t])]_vars

C24_Witness ==
    /\ tpc[1] = "done" /\ tcall[1].op = "mock" /\ tret[1].ok
    /\ tpc[2] = "mid" /\ tcall[2] = Call("deserialize", IntVal(128))
    /\ tdesc = IntType("TINYINT", None, None, None, None, None)

====
